---- MODULE Spec2Model ----
(***************************************************************************)
(* Law-suits assistant backend: the evaluation cache of CaseEvaluator, the *)
(* two LLM provider adapters (OpenAIProvider, GeminiProvider) as far as    *)
(* their control flow and their backend calls go, and the HTTP routes of   *)
(* routes/cases.py with their two in-memory stores.                        *)
(*                                                                         *)
(* The routes are coroutines of one asyncio event loop.  A coroutine runs  *)
(* until it really suspends; `loop` names the coroutine that holds the     *)
(* loop (0: the loop is free).  AsyncOpenAI calls suspend; the Gemini SDK  *)
(* call model.generate_content is a blocking call made inside the          *)
(* coroutine, so it keeps the loop.                                        *)
(*                                                                         *)
(* Scores are in tenths (90 is 9.0); priority scores in hundredths.        *)
(* Texts are sequences of one-character strings.                           *)
(***************************************************************************)
EXTENDS Integers, Sequences, FiniteSets, TLC

VARIABLES
    provider,               \* settings.llm_provider, read once by get_llm_provider()
    cacheFile,              \* content of backend/.cache/eval_cache.json
    evaluator,              \* routes/cases.py: the CaseEvaluator of the module, once made
    cache,                  \* CaseEvaluator._cache: digest -> CaseEvaluation
    evaluated_cases,        \* routes/cases.py: case_id -> CaseEvaluation
    evaluated_case_texts,   \* routes/cases.py: case_id -> document text
    tasks,                  \* the request coroutines, one per slot
    loop,                   \* the slot whose coroutine holds the event loop, or 0
    now,                    \* datetime.utcnow(), a logical clock
    returned,               \* history: what evaluate_case_from_text returned
    everStored,             \* history: inputs whose record was stored in the cache
    requests,               \* requests admitted so far
    probe                   \* a function called on its own: its arguments and its result

vars == <<provider, cacheFile, evaluator, cache, evaluated_cases, evaluated_case_texts,
          tasks, loop, now, returned, everStored, requests, probe>>

----------------------------------------------------------------------------
(* Bounds of the model.                                                    *)

\* Coroutines that can be in flight at once.
NumSlots == 2
\* Files of one evaluate-batch request.
MaxBatch == 2
\* Cap of the per-request backend call counters.
MaxCalls == 6
\* Requests admitted in one behaviour.
MaxRequests == 2

Slots == 1..NumSlots

\* No function is called on its own.
NoProbe == [fn |-> "none"]

----------------------------------------------------------------------------
(* Texts.                                                                  *)

Whitespace == {" ", "\n", "\t"}

RECURSIVE RStrip(_)
\* str.rstrip()
RStrip(s) ==
    IF s = <<>> THEN <<>>
    ELSE IF s[Len(s)] \in Whitespace THEN RStrip(SubSeq(s, 1, Len(s) - 1))
    ELSE s

RECURSIVE LStrip(_)
LStrip(s) ==
    IF s = <<>> THEN <<>>
    ELSE IF s[1] \in Whitespace THEN LStrip(Tail(s))
    ELSE s

\* str.strip()
Strip(s) == LStrip(RStrip(s))

\* str.startswith / str.endswith
StartsWith(s, p) == Len(s) >= Len(p) /\ SubSeq(s, 1, Len(p)) = p
EndsWith(s, p) == Len(s) >= Len(p) /\ SubSeq(s, Len(s) - Len(p) + 1, Len(s)) = p

\* str.find(c): the first index of c (1-based), 0 when absent
Find(s, c) ==
    IF \E i \in 1..Len(s) : s[i] = c
    THEN CHOOSE i \in 1..Len(s) : s[i] = c /\ \A j \in 1..(i - 1) : s[j] # c
    ELSE 0

\* The backquote character is written "~" here: the TLA+ lexer takes no backquote
\* inside a string.
BackQuote == "~"
Fence == <<BackQuote, BackQuote, BackQuote>>

\* _strip_markdown_json
StripMarkdownJson(response_text) ==
    LET s0 == Strip(response_text)
        s1 == IF StartsWith(s0, Fence)
              THEN IF Find(s0, "\n") # 0
                   THEN SubSeq(s0, Find(s0, "\n") + 1, Len(s0))
                   ELSE SubSeq(s0, 4, Len(s0))
              ELSE s0
        s2 == IF EndsWith(s1, Fence) THEN SubSeq(s1, 1, Len(s1) - 3) ELSE s1
    IN  Strip(s2)

\* The heuristic on the text as it is, trailing white space included.
LooksTruncatedUnstripped(text) ==
    text # <<>> /\ ~(text[Len(text)] = "}" \/ text[Len(text)] = "]")

\* LLMProvider._looks_truncated: the JSON heuristic
LooksTruncated(text) ==
    IF text = <<>> THEN FALSE
    ELSE LET s == RStrip(text)
         IN  IF s = <<>> THEN FALSE
             ELSE ~(s[Len(s)] = "}" \/ s[Len(s)] = "]")

\* chat_case: reply.strip().endswith(('.', '!', '?', '"'))
EndsSentence(reply) ==
    LET s == Strip(reply)
    IN  s # <<>> /\ s[Len(s)] \in {".", "!", "?", "\""}

----------------------------------------------------------------------------
(* Requests: document texts, metadata, digests.                            *)

\* Document texts are atoms ("t1", "t2"; "" is the empty text a route rejects).

\* CaseMetadata.  case_type is validated by the routes, not by the evaluator.
MetaA == [title |-> "Smith v. Jones", case_type |-> "Civil"]
MetaSeed == [title |-> "Seed case", case_type |-> "Civil"]
MetaBad == [title |-> "Smith v. Jones", case_type |-> "Tax"]
CaseTypes == {"Civil", "Criminal", "Commercial", "Arbitration"}

\* The (document text, metadata) pairs the evaluator is called with.
Inputs == {[text |-> "t1", meta |-> MetaA],
           [text |-> "t2", meta |-> MetaSeed]}
NoInput == [text |-> "", meta |-> MetaBad]

\* evaluator.py:110: case_id = digest[:8]
CaseIdLen == 8

\* hashlib.sha256(case_text + json.dumps(metadata, sort_keys=True)).hexdigest():
\* an injective table on the inputs of the model, nine hex digits standing for
\* the 64 (no two inputs of the model collide, in the digest or in its prefix).
Sha256Hex(case_text, metadata) ==
    CASE case_text = "t1" /\ metadata = MetaA
            -> <<"0", "a", "1", "f", "0", "0", "0", "1", "c">>
      [] case_text = "t2" /\ metadata = MetaSeed
            -> <<"7", "b", "2", "e", "0", "0", "0", "2", "d">>
      [] case_text = "t0" /\ metadata = MetaA
            -> <<"d", "e", "a", "d", "0", "0", "0", "0", "0">>
      [] OTHER
            -> <<"f", "f", "f", "f", "f", "f", "f", "f", "f">>

\* evaluator.py:99-104
Digest(input) == Sha256Hex(input.text, input.meta)
\* evaluator.py:110
CaseId(digest) == SubSeq(digest, 1, CaseIdLen)

Digests == {Digest(i) : i \in Inputs}

\* 'seed' in case_title.lower()  (chat_case)
TitleHasSeed(title) == title = "Seed case"

----------------------------------------------------------------------------
(* Python floats (IEEE 754 binary64, round to nearest, ties to even).       *)
(* A natural number is a sequence of limbs, least significant first, with   *)
(* no zero limb at the top; a float is a sign, a natural m and an exponent  *)
(* e, and stands for m * 2^e.  Values stay far from overflow and from the   *)
(* subnormal range.                                                         *)

\* The width of a limb of the natural numbers (a representation choice).
LimbBits == 13
Limb == 2^LimbBits
\* The significand of a binary64.
SignificandBits == 53

RECURSIVE Norm(_)
Norm(a) ==
    IF a = <<>> THEN <<>>
    ELSE IF a[Len(a)] = 0 THEN Norm(SubSeq(a, 1, Len(a) - 1))
    ELSE a

RECURSIVE NatOfInt(_)
NatOfInt(k) == IF k = 0 THEN <<>> ELSE <<k % Limb>> \o NatOfInt(k \div Limb)

RECURSIVE IntOfNat(_)
IntOfNat(a) == IF a = <<>> THEN 0 ELSE a[1] + Limb * IntOfNat(Tail(a))

RECURSIVE AddCarry(_, _, _)
AddCarry(a, b, carry) ==
    IF a = <<>> /\ b = <<>> THEN (IF carry = 0 THEN <<>> ELSE <<carry>>)
    ELSE LET x == IF a = <<>> THEN 0 ELSE a[1]
             y == IF b = <<>> THEN 0 ELSE b[1]
             sum == x + y + carry
         IN  <<sum % Limb>> \o AddCarry(IF a = <<>> THEN <<>> ELSE Tail(a),
                                        IF b = <<>> THEN <<>> ELSE Tail(b),
                                        sum \div Limb)
AddNat(a, b) == AddCarry(a, b, 0)

RECURSIVE SubBorrow(_, _, _)
\* a - b - borrow, for a >= b + borrow
SubBorrow(a, b, borrow) ==
    IF a = <<>> THEN <<>>
    ELSE LET y == IF b = <<>> THEN 0 ELSE b[1]
             diff == a[1] - y - borrow
         IN  <<diff % Limb>> \o SubBorrow(Tail(a), IF b = <<>> THEN <<>> ELSE Tail(b),
                                          IF diff < 0 THEN 1 ELSE 0)
SubNat(a, b) == Norm(SubBorrow(a, b, 0))

RECURSIVE CmpTop(_, _)
\* -1, 0, 1 for two naturals of one length
CmpTop(a, b) ==
    IF a = <<>> THEN 0
    ELSE IF a[Len(a)] < b[Len(b)] THEN -1
    ELSE IF a[Len(a)] > b[Len(b)] THEN 1
    ELSE CmpTop(SubSeq(a, 1, Len(a) - 1), SubSeq(b, 1, Len(b) - 1))
CmpNat(a, b) ==
    IF Len(a) < Len(b) THEN -1
    ELSE IF Len(a) > Len(b) THEN 1
    ELSE CmpTop(a, b)

RECURSIVE MulCarry(_, _, _)
\* a * k + carry, for a small k
MulCarry(a, k, carry) ==
    IF a = <<>> THEN NatOfInt(carry)
    ELSE LET prod == a[1] * k + carry
         IN  <<prod % Limb>> \o MulCarry(Tail(a), k, prod \div Limb)
MulSmall(a, k) == Norm(MulCarry(a, k, 0))

RECURSIVE MulNat(_, _)
MulNat(a, b) ==
    IF a = <<>> \/ b = <<>> THEN <<>>
    ELSE AddNat(MulSmall(a, b[1]), Norm(<<0>> \o MulNat(a, Tail(b))))

RECURSIVE DivRem(_, _, _)
\* a \div d from the top limb down, with the remainder carried in
DivRem(a, d, rem) ==
    IF a = <<>> THEN [q |-> <<>>, r |-> rem]
    ELSE LET cur == rem * Limb + a[Len(a)]
             rest == DivRem(SubSeq(a, 1, Len(a) - 1), d, cur % d)
         IN  [q |-> Append(rest.q, cur \div d), r |-> rest.r]
\* quotient and remainder of a by a small d
DivSmall(a, d) ==
    LET dr == DivRem(a, d, 0) IN [q |-> Norm(dr.q), r |-> dr.r]

Zeros(n) == [i \in 1..n |-> 0]
ShiftLeft(a, s) ==
    IF a = <<>> THEN <<>>
    ELSE Zeros(s \div LimbBits) \o MulSmall(a, 2^(s % LimbBits))

RECURSIVE BitLenInt(_)
BitLenInt(k) == IF k = 0 THEN 0 ELSE 1 + BitLenInt(k \div 2)
BitLen(a) == IF a = <<>> THEN 0 ELSE LimbBits * (Len(a) - 1) + BitLenInt(a[Len(a)])

\* a \div 2^s
ShiftRight(a, s) ==
    LET w == s \div LimbBits
    IN  IF w >= Len(a) THEN <<>>
        ELSE DivSmall(SubSeq(a, w + 1, Len(a)), 2^(s % LimbBits)).q

\* a / 2^s rounded to the nearest natural, ties to even
ShiftRightRound(a, s) ==
    IF s <= 0 THEN a
    ELSE LET q == ShiftRight(a, s)
             rem == SubNat(a, ShiftLeft(q, s))
             half == ShiftLeft(<<1>>, s - 1)
             c == CmpNat(rem, half)
             odd == q # <<>> /\ q[1] % 2 = 1
         IN  IF c > 0 \/ (c = 0 /\ odd) THEN AddNat(q, <<1>>) ELSE q

Float(neg, m, e) == [neg |-> neg, m |-> m, e |-> e]
FZero == Float(FALSE, <<>>, 0)

\* The float nearest to (-1)^neg * m * 2^e
Round53(neg, m, e) ==
    LET s == BitLen(m) - SignificandBits
    IN  IF m = <<>> THEN FZero
        ELSE IF s <= 0 THEN Float(neg, m, e)
        ELSE Float(neg, ShiftRightRound(m, s), e + s)

\* float(n / d) for naturals n and a small d > 0: the quotient of n * 2^64 by d
\* carries more bits than the significand, and a last bit that says whether
\* the division left a remainder.
GuardBits == 64
FloatOfRatio(n, d) ==
    LET dr == DivSmall(ShiftLeft(NatOfInt(n), GuardBits), d)
        sticky == AddNat(MulSmall(dr.q, 2), IF dr.r = 0 THEN <<>> ELSE <<1>>)
    IN  Round53(FALSE, sticky, 0 - GuardBits - 1)

FMul(a, b) == Round53(a.neg # b.neg, MulNat(a.m, b.m), a.e + b.e)

\* The two significands over the smaller exponent
Aligned(a, b) ==
    LET e == IF a.e < b.e THEN a.e ELSE b.e
    IN  [e |-> e, am |-> ShiftLeft(a.m, a.e - e), bm |-> ShiftLeft(b.m, b.e - e)]

FAdd(a, b) ==
    LET al == Aligned(a, b)
        c == CmpNat(al.am, al.bm)
    IN  IF a.neg = b.neg THEN Round53(a.neg, AddNat(al.am, al.bm), al.e)
        ELSE IF c = 0 THEN FZero
        ELSE IF c > 0 THEN Round53(a.neg, SubNat(al.am, al.bm), al.e)
        ELSE Round53(b.neg, SubNat(al.bm, al.am), al.e)

FNeg(a) == IF a.m = <<>> THEN a ELSE Float(~a.neg, a.m, a.e)
FSub(a, b) == FAdd(a, FNeg(b))

\* -1, 0, 1: a < b, a = b, a > b
FCmp(a, b) ==
    LET al == Aligned(a, b)
        c == CmpNat(al.am, al.bm)
    IN  IF a.m = <<>> /\ b.m = <<>> THEN 0
        ELSE IF a.neg /\ ~b.neg THEN -1
        ELSE IF ~a.neg /\ b.neg THEN 1
        ELSE IF a.neg THEN 0 - c ELSE c

----------------------------------------------------------------------------
(* JSON values, as json.loads returns them.                                *)

\* Numbers are kept in tenths (JNum(75) is 7.5); an object is its
\* <<key, value>> pairs in the order of the text, a key being a text.
JNull == [t |-> "null"]
JBool(b) == [t |-> "bool", b |-> b]
JNum(n) == [t |-> "num", n |-> n]
JStr(s) == [t |-> "str", s |-> s]
JArr(items) == [t |-> "arr", items |-> items]
JObj(kv) == [t |-> "obj", kv |-> kv]
EmptyObj == JObj(<<>>)

\* A key of the responses: the word is one character of the text.
Key(word) == <<word>>

HasKey(obj, key) == \E i \in DOMAIN obj.kv : obj.kv[i][1] = key

\* dict.get(key, default); a key given twice keeps its last value
Get(obj, key, default) ==
    IF HasKey(obj, key)
    THEN obj.kv[CHOOSE i \in DOMAIN obj.kv :
                   /\ obj.kv[i][1] = key
                   /\ \A j \in DOMAIN obj.kv : obj.kv[j][1] = key => j <= i][2]
    ELSE default

\* The numerals of the texts and what they read as, in tenths.
Numerals ==
    ("0" :> 0) @@ ("2" :> 20) @@ ("5" :> 50) @@ ("7" :> 70) @@ ("7.5" :> 75) @@ ("8" :> 80)
    @@ ("9" :> 90) @@ ("10" :> 100) @@ ("11" :> 110) @@ ("-1" :> -10)

IsNumeral(s) == Len(s) = 1 /\ s[1] \in DOMAIN Numerals

\* str(v) of a number of the texts
NumeralOf(n) == CHOOSE a \in DOMAIN Numerals : Numerals[a] = n

----------------------------------------------------------------------------
(* Evaluation records.                                                     *)

Reasoned == <<"o", "k", ".">>
UnableToDetermine == <<"U", "n", "a", "b", "l", "e">>

\* A dimension of a response.  tag says what its score is: "num" (the number
\* val, in tenths), "absent" (no score key), "str" (a string that float()
\* rejects).  reasoning and key_factors are present or absent.
Dim(tag, val, hasReasoning, factors) ==
    JObj((IF tag = "num" THEN << <<Key("score"), JNum(val)>> >>
          ELSE IF tag = "str" THEN << <<Key("score"), JStr(<<"h", "i">>)>> >>
          ELSE <<>>)
         \o (IF hasReasoning THEN << <<Key("reasoning"), JStr(Reasoned)>> >> ELSE <<>>)
         \o (IF factors # <<>>
             THEN << <<Key("key_factors"),
                       JArr([i \in DOMAIN factors |-> JStr(factors[i])])>> >>
             ELSE <<>>))

\* A response with its three dimensions.
Payload(legal_merit, damages_potential, case_complexity) ==
    JObj(<< <<Key("legal_merit"), legal_merit>>,
            <<Key("damages_potential"), damages_potential>>,
            <<Key("case_complexity"), case_complexity>> >>)

FactorsA == << <<"f", "1">>, <<"f", "2", ")">> >>

PayloadHigh ==
    Payload(Dim("num", 90, TRUE, FactorsA), Dim("num", 90, TRUE, FactorsA),
            Dim("num", 20, TRUE, FactorsA))
PayloadSparse ==
    Payload(Dim("absent", 0, FALSE, <<>>), Dim("num", 100, TRUE, FactorsA),
            Dim("num", 0, TRUE, FactorsA))
PayloadOutOfRange ==
    Payload(Dim("num", 110, TRUE, FactorsA), Dim("num", 50, TRUE, FactorsA),
            Dim("num", 50, TRUE, FactorsA))
PayloadNotNumeric ==
    Payload(Dim("str", 0, TRUE, FactorsA), Dim("num", 50, TRUE, FactorsA),
            Dim("num", 50, TRUE, FactorsA))
\* A JSON value that is no object (a list): .get raises.
PayloadList == JArr(<<>>)

\* The decoded responses the backend of the model can give.
Payloads == {PayloadHigh, PayloadSparse, PayloadOutOfRange,
             PayloadNotNumeric, PayloadList}

\* float(x) raises: TypeError for None, a list, a dict; ValueError for a string
\* that is no number
FloatRaises(v) ==
    \/ v.t \in {"null", "arr", "obj"}
    \/ v.t = "str" /\ ~IsNumeral(Strip(v.s))

\* float(x), in tenths
FloatOf(v) ==
    IF v.t = "num" THEN v.n
    ELSE IF v.t = "bool" THEN (IF v.b THEN 10 ELSE 0)
    ELSE Numerals[Strip(v.s)[1]]

\* float(data.get("score", 5))
ScoreOf(data) == FloatOf(Get(data, Key("score"), JNum(50)))
\* data.get("reasoning", "Unable to determine")
ReasoningOf(data) == Get(data, Key("reasoning"), JStr(UnableToDetermine))

RECURSIVE SplitSentences(_, _)
\* re.split(r'(?<=[\.\?\!])\s+', s) with the empty pieces dropped; cur is the
\* piece being read.
SplitSentences(s, cur) ==
    IF s = <<>> THEN (IF Strip(cur) = <<>> THEN <<>> ELSE <<Strip(cur)>>)
    ELSE IF s[1] \in Whitespace /\ cur # <<>> /\ cur[Len(cur)] \in {".", "?", "!"}
         THEN (IF Strip(cur) = <<>> THEN <<>> ELSE <<Strip(cur)>>)
              \o SplitSentences(LStrip(s), <<>>)
         ELSE SplitSentences(Tail(s), Append(cur, s[1]))

RECURSIVE Split(_, _)
\* str.split(sep): the pieces between the separators, empty ones included
Split(s, sep) ==
    IF Find(s, sep) = 0 THEN <<s>>
    ELSE <<SubSeq(s, 1, Find(s, sep) - 1)>>
         \o Split(SubSeq(s, Find(s, sep) + 1, Len(s)), sep)

RECURSIVE StripChars(_, _)
\* str.strip(chars)
StripChars(s, chars) ==
    IF s = <<>> THEN <<>>
    ELSE IF s[1] \in chars THEN StripChars(Tail(s), chars)
    ELSE IF s[Len(s)] \in chars THEN StripChars(SubSeq(s, 1, Len(s) - 1), chars)
    ELSE s

\* The bullet glyph U+2022.
Bullet == "*"
\* A word of 201 letters, one character of the text here.
LongWord == "W"
\* evaluator.py:146: factors longer than this are dropped
MaxFactorLen == 200

RECURSIVE TextLen(_)
\* len(s)
TextLen(s) ==
    IF s = <<>> THEN 0
    ELSE (IF s[1] = LongWord THEN MaxFactorLen + 1 ELSE 1) + TextLen(Tail(s))

\* str(v)
StrOf(v) ==
    IF v.t = "str" THEN v.s
    ELSE IF v.t = "num" THEN <<NumeralOf(v.n)>>
    ELSE IF v.t = "bool" THEN (IF v.b THEN <<"True">> ELSE <<"False">>)
    ELSE IF v.t = "null" THEN <<"None">>
    ELSE <<"repr">>

RECURSIVE TrimmedNonEmpty(_)
\* _normalize_key_factors on a list:
\* [str(v).strip() for v in value if v is not None and str(v).strip()]
TrimmedNonEmpty(list) ==
    IF list = <<>> THEN <<>>
    ELSE (IF Head(list).t = "null" \/ Strip(StrOf(Head(list))) = <<>> THEN <<>>
          ELSE <<Strip(StrOf(Head(list)))>>)
         \o TrimmedNonEmpty(Tail(list))

RECURSIVE StripEach(_, _)
\* [p.strip(chars) for p in parts if p.strip()]
StripEach(parts, chars) ==
    IF parts = <<>> THEN <<>>
    ELSE (IF Strip(Head(parts)) = <<>> THEN <<>>
          ELSE <<StripChars(Head(parts), chars)>>)
         \o StripEach(Tail(parts), chars)

\* The factors with none dropped for its length.
Unfiltered(parts) == parts

RECURSIVE Shortish(_)
\* [p for p in parts if len(p) > 0 and len(p) <= 200]
Shortish(parts) ==
    IF parts = <<>> THEN <<>>
    ELSE (IF TextLen(Head(parts)) > 0 /\ TextLen(Head(parts)) <= MaxFactorLen
          THEN <<Head(parts)>> ELSE <<>>)
         \o Shortish(Tail(parts))

\* _normalize_key_factors on a string
SplitFactors(value) ==
    LET s == Strip(value)
        has(c) == \E i \in DOMAIN s : s[i] = c
        parts == IF has("\n")
                 THEN StripEach(Split(s, "\n"), {" ", "\t", "\\", "-", Bullet})
                 ELSE IF has(";") THEN StripEach(Split(s, ";"), Whitespace)
                 ELSE IF has(Bullet) THEN StripEach(Split(s, Bullet), Whitespace)
                 ELSE SplitSentences(s, <<>>)
        factors == Shortish(parts)
    IN  IF factors # <<>> THEN factors
        ELSE IF s # <<>> THEN <<s>> ELSE <<>>

RECURSIVE NormalizeKeyFactors(_)
\* _normalize_key_factors; a value of another type gives None, which the
\* caller takes as no factors
NormalizeKeyFactors(value) ==
    IF value.t = "arr" THEN TrimmedNonEmpty(value.items)
    ELSE IF value.t = "obj" THEN NormalizeKeyFactors(Get(value, Key("key_factors"), JNull))
    ELSE IF value.t = "str" THEN SplitFactors(value.s)
    ELSE <<>>

\* _ensure_factors
EnsureFactors(data) ==
    LET reasoning == Get(data, Key("reasoning"), JStr(<<>>))
        normalized == NormalizeKeyFactors(Get(data, Key("key_factors"), JNull))
        sents == IF reasoning.t = "str" THEN SplitSentences(reasoning.s, <<>>) ELSE <<>>
    IN  IF normalized # <<>> THEN normalized
        ELSE IF reasoning.t = "str" /\ Strip(reasoning.s) # <<>>
             THEN SubSeq(sents, 1, IF Len(sents) < 3 THEN Len(sents) ELSE 3)
             ELSE <<>>

\* ScoreExplanation(score=..., reasoning=..., key_factors=...)
ScoreExplanation(data) ==
    [score |-> ScoreOf(data), reasoning |-> ReasoningOf(data).s,
     key_factors |-> EnsureFactors(data)]

\* A ScoreExplanation whose score field has no bounds.
DimUnbounded(data) ==
    \/ data.t # "obj"
    \/ /\ data.t = "obj"
       /\ \/ FloatRaises(Get(data, Key("score"), JNum(50)))
          \/ ReasoningOf(data).t # "str"

\* What makes ScoreExplanation(...) of one dimension raise: data that is no
\* mapping (AttributeError on .get), a score float() rejects, a score outside
\* 0..10 or a reasoning that is no string (pydantic ValidationError).
DimRaises(data) ==
    \/ data.t # "obj"
    \/ /\ data.t = "obj"
       /\ \/ FloatRaises(Get(data, Key("score"), JNum(50)))
          \/ ~FloatRaises(Get(data, Key("score"), JNum(50)))
             /\ (ScoreOf(data) < 0 \/ ScoreOf(data) > 100)
          \/ ReasoningOf(data).t # "str"

DimKeys == {Key("legal_merit"), Key("damages_potential"), Key("case_complexity")}

\* What makes the construction of the record raise: a response that is no
\* mapping (AttributeError on .get), or a dimension that raises.
BuildRaises(payload) ==
    \/ payload.t # "obj"
    \/ /\ payload.t = "obj"
       /\ \E key \in DimKeys : DimRaises(Get(payload, key, EmptyObj))

Min(a, b) == IF a < b THEN a ELSE b
Max(a, b) == IF a > b THEN a ELSE b

\* float(n / 10): the float of a number of the texts
FloatOfTenths(n) == FloatOfRatio(n, 10)

\* The literals 0.4 and 0.2 of evaluator.py:185-187
PointFour == FloatOfRatio(4, 10)
PointTwo == FloatOfRatio(2, 10)
FTen == FloatOfRatio(10, 1)

\* evaluator.py:184-188: (m * 0.4) + (d * 0.4) - (c * 0.2), in floats
WeightedSum(m, d, c) ==
    FSub(FAdd(FMul(FloatOfTenths(m), PointFour), FMul(FloatOfTenths(d), PointFour)),
         FMul(FloatOfTenths(c), PointTwo))

\* evaluator.py:191: max(0, min(10, p))
Clamp(p) ==
    LET low == IF FCmp(p, FTen) < 0 THEN p ELSE FTen
    IN  IF FCmp(low, FZero) > 0 THEN low ELSE FZero

\* A float between 0 and 10 as a record: h is the nearest number of
\* hundredths, dev says where the float lies against float(h / 100): below
\* (-1), on it (0), above (1).  4.0 is [h |-> 400, dev |-> 0] and
\* 3.9999999999999996 is [h |-> 400, dev |-> -1].
Hundredths(p) ==
    LET scaled == MulSmall(p.m, 100)
        h == IntOfNat(IF p.e < 0 THEN ShiftRightRound(scaled, 0 - p.e)
                      ELSE ShiftLeft(scaled, p.e))
    IN  [h |-> h, dev |-> FCmp(p, FloatOfRatio(h, 100))]

\* evaluator.py:184-191, computed
PriorityOf(m, d, c) == Hundredths(Clamp(WeightedSum(m, d, c)))

\* The priority scores of the score triples the decoded responses of the
\* model hold, computed once.
KnownTriples == {<<90, 90, 20>>, <<50, 100, 0>>, <<50, 50, 50>>}
KnownPriority == [t \in KnownTriples |-> PriorityOf(t[1], t[2], t[3])]

\* evaluator.py:184-191; scores in tenths
PriorityScore(m, d, c) ==
    IF <<m, d, c>> \in KnownTriples THEN KnownPriority[<<m, d, c>>]
    ELSE PriorityOf(m, d, c)

\* evaluator.py:194-199: priority_score >= 7, >= 4.  7 and 4 are floats, so
\* a float is >= 7 when its nearest hundredth is above 700 or is 700 with
\* the float not below it.
PriorityRank(priority_score) ==
    IF priority_score.h > 700 \/ (priority_score.h = 700 /\ priority_score.dev >= 0)
    THEN "High"
    ELSE IF priority_score.h > 400 \/ (priority_score.h = 400 /\ priority_score.dev >= 0)
         THEN "Medium"
    ELSE "Low"

\* evaluator.py:210-220: CaseEvaluation(...) of the three dimensions and the
\* priority score
CaseEvaluation(input, lm, dp, cc, ps, created_at) ==
    [case_id |-> CaseId(Digest(input)),
     case_title |-> input.meta.title,
     legal_merit |-> lm,
     damages_potential |-> dp,
     case_complexity |-> cc,
     priority_score |-> ps,
     priority_rank |-> PriorityRank(ps),
     created_at |-> created_at]

\* evaluator.py:184-220: the priority of the three dimensions and the record
Prioritized(input, lm, dp, cc, created_at) ==
    CaseEvaluation(input, lm, dp, cc,
                   PriorityScore(lm.score, dp.score, cc.score), created_at)

\* evaluator.py:163-220: the CaseEvaluation built from a decoded response
BuildEvaluation(input, payload, created_at) ==
    Prioritized(input,
                ScoreExplanation(Get(payload, Key("legal_merit"), EmptyObj)),
                ScoreExplanation(Get(payload, Key("damages_potential"), EmptyObj)),
                ScoreExplanation(Get(payload, Key("case_complexity"), EmptyObj)),
                created_at)

\* No record: what a coroutine holds before evaluate_case_from_text has
\* returned one.
NoRecord ==
    [case_id |-> CaseId(Digest(NoInput)),
     case_title |-> NoInput.meta.title,
     legal_merit |-> [score |-> 50, reasoning |-> UnableToDetermine, key_factors |-> <<>>],
     damages_potential |-> [score |-> 50, reasoning |-> UnableToDetermine, key_factors |-> <<>>],
     case_complexity |-> [score |-> 50, reasoning |-> UnableToDetermine, key_factors |-> <<>>],
     priority_score |-> [h |-> 300, dev |-> 0],
     priority_rank |-> "Low",
     created_at |-> 0]

----------------------------------------------------------------------------
(* The cache file and its load (CaseEvaluator.__init__).                   *)

\* A record as json.load returns it from the file: valid entries validate as a
\* CaseEvaluation, the others make model_validate raise.
FileRecord(input) == BuildEvaluation(input, PayloadHigh, 0)
ValidEntry(k, rec) == [k |-> k, valid |-> TRUE, rec |-> rec]
InvalidEntry(k) == [k |-> k, valid |-> FALSE, rec |-> NoRecord]

In1 == [text |-> "t1", meta |-> MetaA]
In2 == [text |-> "t2", meta |-> MetaSeed]
\* A document of an earlier run, which no request of the model posts again.
In0 == [text |-> "t0", meta |-> MetaA]

\* kind: "missing" (no file), "corrupt" (json.load raises), "notdict" (JSON that
\* is no object: raw.items() raises), "dict" (entries in file order).
CacheFiles ==
    {[kind |-> "missing", entries |-> <<>>],
     [kind |-> "dict", entries |-> <<InvalidEntry(Digest(In2)),
                                     ValidEntry(Digest(In1), FileRecord(In1))>>]}

\* dict[k] = v on a mapping kept as a function
Put(map, k, v) == [x \in DOMAIN map \cup {k} |-> IF x = k THEN v ELSE map[x]]
\* del dict[k]
Del(map, k) == [x \in DOMAIN map \ {k} |-> map[x]]
EmptyMap == [x \in {} |-> NoRecord]

RECURSIVE LoadEntries(_, _)
\* evaluator.py:47-55: the loop over raw.items(); an entry that does not
\* validate is skipped
LoadEntries(entries, acc) ==
    IF entries = <<>> THEN acc
    ELSE LET e == Head(entries)
         IN  IF e.valid
             THEN LoadEntries(Tail(entries), Put(acc, e.k, e.rec))
             ELSE LoadEntries(Tail(entries), acc)

\* A load that gives up the whole file at the first entry that does not
\* validate.
LoadAllOrNothing(file) ==
    IF file.kind = "dict" /\ \A i \in DOMAIN file.entries : file.entries[i].valid
    THEN LoadEntries(file.entries, EmptyMap)
    ELSE EmptyMap

\* evaluator.py:33-59: the cache after construction
LoadCache(file) ==
    IF file.kind = "dict" THEN LoadEntries(file.entries, EmptyMap)
    ELSE EmptyMap

----------------------------------------------------------------------------
(* seed_case.                                                              *)

\* uuid.uuid4().hex[:8]: any id may come out
UuidIds == {<<"5", "e", "e", "d", "0", "0", "0", "1">>}
SeedTitles == {"Seed case"}

\* cases.py:66: round(7.0 * 0.4 + 0.0 * 0.4 - 7.0 * 0.2, 3), the float of 1.4
SeedPriority == [h |-> 140, dev |-> 0]

\* cases.py:42-79
SeedEvaluation(case_id, title, created_at) ==
    [case_id |-> case_id,
     case_title |-> title,
     legal_merit |-> [score |-> 70, reasoning |-> Reasoned,
                      key_factors |-> FactorsA],
     damages_potential |-> [score |-> 0, reasoning |-> Reasoned,
                            key_factors |-> FactorsA],
     case_complexity |-> [score |-> 70, reasoning |-> Reasoned,
                          key_factors |-> FactorsA],
     priority_score |-> SeedPriority,
     priority_rank |-> PriorityRank(SeedPriority),
     created_at |-> created_at]

SeededText == "(seeded test case content)"

----------------------------------------------------------------------------
(* json.loads and the repairs of llm_adapter.py, on texts.                 *)

\* A text is a sequence of characters; a numeral ("7.5"), a literal ("null")
\* and a word ("score") are one element each.

\* What json.loads skips between tokens.
JsonSpace == {" ", "\n", "\t", "\r"}

Literals == ("null" :> JNull) @@ ("true" :> JBool(TRUE)) @@ ("false" :> JBool(FALSE))

\* The escapes json.loads takes in a string, and the character each stands for.
Escapes ==
    ("\"" :> "\"") @@ ("\\" :> "\\") @@ ("/" :> "/") @@ ("n" :> "\n")
    @@ ("t" :> "\t") @@ ("r" :> "\r")

\* The control characters of the texts and the letter of their escape.
ControlEscapes == ("\n" :> "n") @@ ("\t" :> "t") @@ ("\r" :> "r")

\* text[i], or "" past the end
At(text, i) == IF i >= 1 /\ i <= Len(text) THEN text[i] ELSE ""

RECURSIVE SkipSpace(_, _)
SkipSpace(text, i) ==
    IF At(text, i) \in JsonSpace THEN SkipSpace(text, i + 1) ELSE i

\* The result of a parse: the value and the index after it, or a failure
\* (json.JSONDecodeError).
ParseError == [ok |-> FALSE, v |-> JNull, i |-> 0]
Parsed(v, i) == [ok |-> TRUE, v |-> v, i |-> i]

RECURSIVE ParseString(_, _, _)
\* A string from the index after its opening quote; acc is what was read.
\* A control character or a wrong escape inside it is an error.
ParseString(text, i, acc) ==
    IF i > Len(text) THEN ParseError
    ELSE IF text[i] = "\"" THEN Parsed(JStr(acc), i + 1)
    ELSE IF text[i] = "\\"
         THEN IF At(text, i + 1) \in DOMAIN Escapes
              THEN ParseString(text, i + 2, Append(acc, Escapes[text[i + 1]]))
              ELSE ParseError
    ELSE IF text[i] \in DOMAIN ControlEscapes THEN ParseError
    ELSE ParseString(text, i + 1, Append(acc, text[i]))

RECURSIVE ParseValue(_, _)
RECURSIVE ParseMembers(_, _, _)
RECURSIVE ParseElements(_, _, _)

\* A value from index i on, white space before it skipped.
ParseValue(text, i) ==
    LET at == SkipSpace(text, i)
        inner == SkipSpace(text, at + 1)
    IN  IF At(text, at) = "{"
        THEN IF At(text, inner) = "}" THEN Parsed(EmptyObj, inner + 1)
             ELSE ParseMembers(text, inner, <<>>)
        ELSE IF At(text, at) = "["
        THEN IF At(text, inner) = "]" THEN Parsed(JArr(<<>>), inner + 1)
             ELSE ParseElements(text, inner, <<>>)
        ELSE IF At(text, at) = "\"" THEN ParseString(text, at + 1, <<>>)
        ELSE IF At(text, at) \in DOMAIN Numerals
        THEN Parsed(JNum(Numerals[text[at]]), at + 1)
        ELSE IF At(text, at) \in DOMAIN Literals
        THEN Parsed(Literals[text[at]], at + 1)
        ELSE ParseError

\* The members of an object from the quote of a key at index i on; kv is what
\* was read.
ParseMembers(text, i, kv) ==
    IF At(text, i) # "\"" THEN ParseError
    ELSE LET key == ParseString(text, i + 1, <<>>)
             colon == SkipSpace(text, key.i)
             val == ParseValue(text, colon + 1)
             after == SkipSpace(text, val.i)
         IN  IF ~key.ok \/ At(text, colon) # ":" THEN ParseError
             ELSE IF ~val.ok THEN ParseError
             ELSE IF At(text, after) = ","
                  THEN ParseMembers(text, SkipSpace(text, after + 1),
                                    Append(kv, <<key.v.s, val.v>>))
             ELSE IF At(text, after) = "}"
                  THEN Parsed(JObj(Append(kv, <<key.v.s, val.v>>)), after + 1)
             ELSE ParseError

\* The elements of an array from index i on; items is what was read.
ParseElements(text, i, items) ==
    LET val == ParseValue(text, i)
        after == SkipSpace(text, val.i)
    IN  IF ~val.ok THEN ParseError
        ELSE IF At(text, after) = ","
             THEN ParseElements(text, after + 1, Append(items, val.v))
        ELSE IF At(text, after) = "]"
             THEN Parsed(JArr(Append(items, val.v)), after + 1)
        ELSE ParseError

\* json.loads(text): one value and nothing but white space after it
JsonLoads(text) ==
    LET val == ParseValue(text, 1)
    IN  IF val.ok /\ SkipSpace(text, val.i) > Len(text) THEN val ELSE ParseError

\* c, n times
Repeat(c, n) == [i \in 1..n |-> c]

RECURSIVE Join(_, _)
\* sep.join(parts)
Join(parts, sep) ==
    IF parts = <<>> THEN <<>>
    ELSE IF Len(parts) = 1 THEN parts[1]
    ELSE parts[1] \o <<sep>> \o Join(Tail(parts), sep)

\* A quote that opens or closes a string for the loops that look at the
\* character before it (llm_adapter.py:84, 150, 319).
BareQuote(text, i) == text[i] = "\"" /\ At(text, i - 1) # "\\"

\* What a loop over the characters of a text carries: whether it is inside a
\* string, whether the character before was an escaping backslash, whether
\* this character was already taken, the open braces and brackets, the index
\* the loop broke at, and the characters written so far.
LoopStart ==
    [in_string |-> FALSE, escape |-> FALSE, skip |-> FALSE, braces |-> 0,
     brackets |-> 0, end |-> 0, acc |-> <<>>]

\* The braces and brackets counted outside strings.
Counted(st, c) ==
    IF st.in_string THEN st
    ELSE IF c = "{" THEN [st EXCEPT !.braces = st.braces + 1]
    ELSE IF c = "}" THEN [st EXCEPT !.braces = st.braces - 1]
    ELSE IF c = "[" THEN [st EXCEPT !.brackets = st.brackets + 1]
    ELSE IF c = "]" THEN [st EXCEPT !.brackets = st.brackets - 1]
    ELSE st

\* llm_adapter.py:80-106, the body of the loop of _escape_control_chars
EscapeStep(st, text, i) ==
    IF BareQuote(text, i)
    THEN [st EXCEPT !.in_string = ~st.in_string, !.acc = Append(st.acc, text[i])]
    ELSE IF st.in_string /\ text[i] \in DOMAIN ControlEscapes
         THEN [st EXCEPT !.acc = st.acc \o <<"\\", ControlEscapes[text[i]]>>]
    ELSE [st EXCEPT !.acc = Append(st.acc, text[i])]

\* llm_adapter.py:149-159, the body of the loop of
\* _close_unterminated_structures
QuoteStep(st, text, i) ==
    IF BareQuote(text, i) THEN [st EXCEPT !.in_string = ~st.in_string]
    ELSE Counted(st, text[i])

\* llm_adapter.py:247-267, the body of the loop of _complete_truncated_json
FlagStep(st, text, i) ==
    IF st.escape THEN [st EXCEPT !.escape = FALSE]
    ELSE IF text[i] = "\\" THEN [st EXCEPT !.escape = TRUE]
    ELSE IF text[i] = "\"" THEN [st EXCEPT !.in_string = ~st.in_string]
    ELSE Counted(st, text[i])

\* The characters _fix_invalid_escapes keeps a backslash before.
KeptEscapes == {"\"", "\\", "/", "b", "f", "n", "r", "t", "u"}

\* llm_adapter.py:315-339, the body of the loop of _fix_invalid_escapes; a
\* kept escape takes two characters at once
InvalidEscapeStep(st, text, i) ==
    IF st.skip THEN [st EXCEPT !.skip = FALSE]
    ELSE IF BareQuote(text, i)
         THEN [st EXCEPT !.in_string = ~st.in_string, !.acc = Append(st.acc, text[i])]
    ELSE IF st.in_string /\ text[i] = "\\" /\ i < Len(text)
         THEN IF text[i + 1] \in KeptEscapes
              THEN [st EXCEPT !.skip = TRUE, !.acc = st.acc \o <<text[i], text[i + 1]>>]
              ELSE st
    ELSE [st EXCEPT !.acc = Append(st.acc, text[i])]

\* llm_adapter.py:945-990, the body of the loop of _fix_json_newlines
FixNewlinesStep(st, text, i) ==
    IF st.escape THEN [st EXCEPT !.escape = FALSE, !.acc = Append(st.acc, text[i])]
    ELSE IF text[i] = "\\"
         THEN [st EXCEPT !.escape = TRUE, !.acc = Append(st.acc, text[i])]
    ELSE IF text[i] = "\""
         THEN [st EXCEPT !.in_string = ~st.in_string, !.acc = Append(st.acc, text[i])]
    ELSE IF st.in_string /\ text[i] \in DOMAIN ControlEscapes
         THEN [st EXCEPT !.acc = st.acc \o <<"\\", ControlEscapes[text[i]]>>]
    ELSE [st EXCEPT !.acc = Append(st.acc, text[i])]

\* llm_adapter.py:1009-1025, the body of the loop of _extract_and_repair_json;
\* end is the index of the brace that closes the first one, where the loop
\* breaks
BraceStep(st, text, i) ==
    IF st.end # 0 THEN st
    ELSE IF st.escape THEN [st EXCEPT !.escape = FALSE]
    ELSE IF text[i] = "\\" THEN [st EXCEPT !.escape = TRUE]
    ELSE IF text[i] = "\"" THEN [st EXCEPT !.in_string = ~st.in_string]
    ELSE IF ~st.in_string /\ text[i] = "{" THEN [st EXCEPT !.braces = st.braces + 1]
    ELSE IF ~st.in_string /\ text[i] = "}"
         THEN [st EXCEPT !.braces = st.braces - 1,
                         !.end = IF st.braces = 1 THEN i ELSE 0]
    ELSE st

LoopStep(body, st, text, i) ==
    CASE body = "_escape_control_chars" -> EscapeStep(st, text, i)
      [] body = "_close_unterminated_structures" -> QuoteStep(st, text, i)
      [] body = "_complete_truncated_json" -> FlagStep(st, text, i)
      [] body = "_fix_invalid_escapes" -> InvalidEscapeStep(st, text, i)
      [] body = "_fix_json_newlines" -> FixNewlinesStep(st, text, i)
      [] body = "_extract_and_repair_json" -> BraceStep(st, text, i)

RECURSIVE Loop(_, _, _, _, _)
\* The loop of `body` over text[lo..hi], from the state st: its first half
\* and, unless the loop broke there, its second half.
Loop(body, text, lo, hi, st) ==
    IF lo > hi THEN st
    ELSE IF lo = hi THEN LoopStep(body, st, text, lo)
    ELSE LET first == Loop(body, text, lo, (lo + hi) \div 2, st)
         IN  IF first.end # 0 THEN first
             ELSE Loop(body, text, (lo + hi) \div 2 + 1, hi, first)

\* The closing quote, brackets and braces that are appended.
Closers(st) ==
    (IF st.in_string THEN <<"\"">> ELSE <<>>)
    \o Repeat("]", st.brackets) \o Repeat("}", st.braces)

\* LLMProvider._escape_control_chars
EscapeControlChars(text) ==
    LET st == Loop("_escape_control_chars", text, 1, Len(text), LoopStart)
    IN  st.acc \o (IF st.in_string THEN <<"\"">> ELSE <<>>)

RECURSIVE RStripEach(_)
RStripEach(lines) ==
    IF lines = <<>> THEN <<>> ELSE <<RStrip(Head(lines))>> \o RStripEach(Tail(lines))

\* LLMProvider._smart_line_handling
SmartLineHandling(text) ==
    EscapeControlChars(Join(RStripEach(Split(text, "\n")), " "))

\* LLMProvider._close_unterminated_structures
CloseUnterminatedStructures(text) ==
    LET escaped == EscapeControlChars(text)
    IN  escaped \o Closers(Loop("_close_unterminated_structures", escaped, 1,
                                Len(escaped), LoopStart))

\* The completion of the text as it is, not stripped.
CompleteUnstripped(text) ==
    text \o Closers(Loop("_complete_truncated_json", text, 1, Len(text), LoopStart))

\* LLMProvider._complete_truncated_json
CompleteTruncatedJson(text) ==
    LET s == Strip(text)
    IN  s \o Closers(Loop("_complete_truncated_json", s, 1, Len(s), LoopStart))

\* LLMProvider._remove_trailing_commas: a comma that is not the last character
\* and has ] or } as the next character that is no white space becomes a space
RemoveTrailingCommas(text) ==
    [i \in 1..Len(text) |->
        IF i < Len(text) /\ text[i] = ","
           /\ At(text, SkipSpace(text, i + 1)) \in {"]", "}"}
        THEN " " ELSE text[i]]

\* LLMProvider._fix_invalid_escapes
FixInvalidEscapes(text) ==
    Loop("_fix_invalid_escapes", text, 1, Len(text), LoopStart).acc

\* A repair that gave nothing (None).
NoRepair == [ok |-> FALSE, text |-> <<>>]

\* The strategies of _aggressive_json_repair, in the order they are tried.
RepairStrategies(json_text) ==
    <<CompleteTruncatedJson(json_text), RemoveTrailingCommas(json_text),
      EscapeControlChars(json_text), SmartLineHandling(json_text),
      CloseUnterminatedStructures(json_text), FixInvalidEscapes(json_text)>>

\* The first of the candidates that json.loads takes.
FirstLoadable(candidates) ==
    IF \E i \in DOMAIN candidates : JsonLoads(candidates[i]).ok
    THEN [ok |-> TRUE,
          text |-> candidates[CHOOSE i \in DOMAIN candidates :
                                 /\ JsonLoads(candidates[i]).ok
                                 /\ \A j \in 1..(i - 1) : ~JsonLoads(candidates[j]).ok]]
    ELSE NoRepair

\* LLMProvider._aggressive_json_repair
AggressiveJsonRepair(json_text) == FirstLoadable(RepairStrategies(json_text))

\* GeminiProvider._fix_json_newlines
FixJsonNewlines(text) ==
    Loop("_fix_json_newlines", text, 1, Len(text), LoopStart).acc

\* llm_adapter.py:999-1036: the text from the first brace to the brace that
\* closes it, or to the end with the missing quote and braces appended
JsonCandidate(response_text, start_idx) ==
    LET st == Loop("_extract_and_repair_json", response_text, start_idx,
                   Len(response_text), LoopStart)
    IN  IF st.end # 0 THEN SubSeq(response_text, start_idx, st.end)
        ELSE SubSeq(response_text, start_idx, Len(response_text))
             \o (IF st.in_string THEN <<"\"">> ELSE <<>>)
             \o Repeat("}", st.braces)

\* GeminiProvider._fix_problematic_quotes_in_line: every branch appends the
\* character as it is
FixProblematicQuotesInLine(line) == line

\* Nothing was extracted (None).
NoValue == [ok |-> FALSE, v |-> JNull]

\* json.loads of a repair, when there is one
LoadRepair(repaired) ==
    IF repaired.ok /\ repaired.text # <<>>
    THEN [ok |-> TRUE, v |-> JsonLoads(repaired.text).v]
    ELSE NoValue

\* llm_adapter.py:1038-1080: json.loads of the candidate, of its aggressive
\* repair, and of the candidate with its line of the error rewritten
LoadCandidate(json_candidate) ==
    IF JsonLoads(json_candidate).ok
    THEN [ok |-> TRUE, v |-> JsonLoads(json_candidate).v]
    ELSE IF LoadRepair(AggressiveJsonRepair(json_candidate)).ok
         THEN LoadRepair(AggressiveJsonRepair(json_candidate))
    ELSE IF JsonLoads(FixProblematicQuotesInLine(json_candidate)).ok
         THEN [ok |-> TRUE, v |-> JsonLoads(FixProblematicQuotesInLine(json_candidate)).v]
    ELSE NoValue

\* GeminiProvider._extract_and_repair_json
ExtractAndRepairJson(response_text) ==
    IF Find(response_text, "{") = 0 THEN NoValue
    ELSE LoadCandidate(FixJsonNewlines(StripMarkdownJson(
             JsonCandidate(response_text, Find(response_text, "{")))))

\* bool(value) of a JSON value (llm_adapter.py:847, `if json_obj:`)
Truthy(v) ==
    IF v.t = "obj" THEN v.kv # <<>>
    ELSE IF v.t = "arr" THEN v.items # <<>>
    ELSE IF v.t = "str" THEN v.s # <<>>
    ELSE IF v.t = "num" THEN v.n # 0
    ELSE IF v.t = "bool" THEN v.b
    ELSE FALSE

\* What evaluate_case makes of a text: parse is "direct" when json.loads takes
\* the stripped text, "repaired" when a repair gives a value, "fail" when none
\* does; strategy names the step that gave the value; trunc is _looks_truncated
\* of the stripped text.
Outcome(parse, strategy, value, text) ==
    [raises |-> FALSE, parse |-> parse, strategy |-> strategy, value |-> value,
     trunc |-> LooksTruncated(text), text |-> text]

\* llm_adapter.py:816-849 on the stripped text
Cascade(response_text) ==
    IF JsonLoads(response_text).ok
    THEN Outcome("direct", "json.loads", JsonLoads(response_text).v, response_text)
    ELSE IF JsonLoads(FixJsonNewlines(response_text)).ok
    THEN Outcome("repaired", "_fix_json_newlines",
                 JsonLoads(FixJsonNewlines(response_text)).v, response_text)
    ELSE IF LoadRepair(AggressiveJsonRepair(response_text)).ok
    THEN Outcome("repaired", "_aggressive_json_repair",
                 LoadRepair(AggressiveJsonRepair(response_text)).v, response_text)
    ELSE IF ExtractAndRepairJson(response_text).ok
            /\ Truthy(ExtractAndRepairJson(response_text).v)
    THEN Outcome("repaired", "_extract_and_repair_json",
                 ExtractAndRepairJson(response_text).v, response_text)
    ELSE Outcome("fail", "none", JNull, response_text)

\* GeminiProvider.evaluate_case, llm_adapter.py:809-849: what the first
\* response gives
AnswerOf(raw) ==
    CHOOSE ans \in {Cascade(text) : text \in {StripMarkdownJson(raw)}} : TRUE

\* llm_adapter.py:871-880 on the combined text
CombinedCascade(combined) ==
    IF JsonLoads(combined).ok
    THEN Outcome("direct", "json.loads", JsonLoads(combined).v, combined)
    ELSE IF LoadRepair(AggressiveJsonRepair(combined)).ok
    THEN Outcome("repaired", "_aggressive_json_repair",
                 LoadRepair(AggressiveJsonRepair(combined)).v, combined)
    ELSE Outcome("fail", "none", JNull, combined)

\* GeminiProvider.evaluate_case, llm_adapter.py:863-880: what the
\* continuation gives, response_text being the stripped first response
ContinuationAnswerOf(response_text, cont_raw) ==
    CHOOSE ans \in {CombinedCascade(combined) :
                       combined \in {response_text \o StripMarkdownJson(cont_raw)}} :
       TRUE

----------------------------------------------------------------------------
(* The responses of the backend, as texts.                                 *)

RECURSIVE TextOf(_)
RECURSIVE TextOfAll(_)
RECURSIVE TextOfMembers(_)

\* A text that json.loads reads as the value v, without white space.
TextOf(v) ==
    IF v.t = "num" THEN <<NumeralOf(v.n)>>
    ELSE IF v.t = "str" THEN <<"\"">> \o v.s \o <<"\"">>
    ELSE IF v.t = "null" THEN <<"null">>
    ELSE IF v.t = "bool" THEN (IF v.b THEN <<"true">> ELSE <<"false">>)
    ELSE IF v.t = "arr" THEN <<"[">> \o TextOfAll(v.items) \o <<"]">>
    ELSE <<"{">> \o TextOfMembers(v.kv) \o <<"}">>

TextOfAll(items) ==
    IF items = <<>> THEN <<>>
    ELSE IF Len(items) = 1 THEN TextOf(items[1])
    ELSE TextOf(items[1]) \o <<",">> \o TextOfAll(Tail(items))

TextOfMembers(kv) ==
    IF kv = <<>> THEN <<>>
    ELSE <<"\"">> \o kv[1][1] \o <<"\"", ":">> \o TextOf(kv[1][2])
         \o (IF Len(kv) = 1 THEN <<>> ELSE <<",">> \o TextOfMembers(Tail(kv)))

\* A text between markdown code fences, the opening one tagged json.
Fenced(text) == Fence \o <<"json", "\n">> \o text \o <<"\n">> \o Fence

\* What a response can give as the score and as the reasoning of a dimension:
\* nothing (no such key), or a value.
NoMember == <<>>
ScoreMembers ==
    {NoMember}
    \cup {<< <<Key("score"), v>> >> :
             v \in {JNum(80), JNum(110), JNum(-10), JStr(<<"h", "i">>), JStr(<<"8">>),
                    JNull, JArr(<<JNum(80)>>)}}
ReasoningMembers ==
    {NoMember}
    \cup {<< <<Key("reasoning"), v>> >> : v \in {JStr(Reasoned), JStr(<<>>), JNull}}

\* The dimensions a response can hold.
DimObjects == {JObj(s \o r) : s \in ScoreMembers, r \in ReasoningMembers}

\* Well-formed responses that are one JSON object.
ResponseObjects ==
    {JObj(<< <<Key("legal_merit"), d>> >>) : d \in DimObjects}
    \cup {JObj(<< <<k, JObj(s)>> >>) :
             k \in {Key("damages_potential"), Key("case_complexity")},
             s \in ScoreMembers}
    \cup {PayloadHigh, EmptyObj,
          JObj(<< <<Key("legal_merit"), JNum(80)>> >>)}

\* Well-formed responses that are no object.
ResponseScalars == {JArr(<<JNum(80)>>), JNum(80), JNull, JStr(Reasoned)}

\* The first k characters of a text, for every k: a response cut off.
Prefixes(text) == {SubSeq(text, 1, k) : k \in 0..(Len(text) - 1)}

CutResponse ==
    TextOf(JObj(<< <<Key("legal_merit"),
                    JObj(<< <<Key("score"), JNum(80)>>,
                            <<Key("reasoning"), JStr(Reasoned)>> >>)>> >>))

\* Responses with something around or inside the JSON.
OddResponses ==
    {<<"x", " ">> \o CutResponse \o <<" ", "x">>,
     <<"x", " ", "{", "}">>,
     <<"x">>,
     <<"{", "\"", "legal_merit", "\"", ":", "{", "\"", "score", "\"", ":", "8",
       ",", "}", ",", "}">>,
     <<"{", "\"", "legal_merit", "\"", ":", "{", "\"", "reasoning", "\"", ":",
       "\"", "o", "k", ".", "\n", "o", "k", ".", "\"", "}", "}">>,
     Fence \o CutResponse \o Fence}

\* What the first call of evaluate_case can answer.
ResponseTexts ==
    {TextOf(v) : v \in ResponseObjects \cup ResponseScalars}
    \cup {Fenced(TextOf(v)) : v \in {PayloadHigh, EmptyObj, JNum(80)}}
    \cup Prefixes(CutResponse)
    \cup OddResponses

\* What the continuation call can answer.
ContinuationTexts ==
    {<<>>, <<"}", "}">>, <<"8", "}", "}">>, <<"\"", "}", "}">>, <<"x">>,
     Fenced(<<"}", "}">>)}

----------------------------------------------------------------------------
(* The generative backend: what one call can answer.                       *)

\* One structured call (evaluate_case).  raises: the call fails (network,
\* quota).  parse: "direct" (json.loads of the stripped text succeeds),
\* "repaired" (_fix_json_newlines, _aggressive_json_repair or
\* _extract_and_repair_json yields JSON), "fail" (none does).  trunc is
\* _looks_truncated of the text; value is the decoded JSON.
StructuredAnswers ==
    {[raises |-> TRUE, parse |-> "fail", trunc |-> FALSE, value |-> PayloadList]}
    \cup {[raises |-> FALSE, parse |-> p, trunc |-> FALSE, value |-> v] :
             p \in {"direct", "repaired"}, v \in Payloads}
    \cup {[raises |-> FALSE, parse |-> "fail", trunc |-> b, value |-> PayloadList] :
             b \in BOOLEAN}

\* One continuation call: parse is that of response_text + cont_text.
ContinuationAnswers == {a \in StructuredAnswers : ~a.trunc}

\* One free-form call (generate_text): the text of the backend, or a failure.
ChatFirstTexts ==
    {<<"a">>, <<"a", ".">>, <<"a", "}">>, <<>>,
     <<BackQuote, BackQuote, BackQuote, "\n", "a", ".", "\n",
       BackQuote, BackQuote, BackQuote>>}
ChatContTexts == {<<>>, <<" ">>, <<"b">>, <<"]">>}

----------------------------------------------------------------------------
(* Coroutines.                                                             *)

\* The locals of evaluate_case before any response: raw is response.text,
\* cont the continuation's text, first what the first response gave, answer
\* what evaluate_case ended with.
NoExchange ==
    [raw |-> <<>>, cont |-> <<>>,
     first |-> [raises |-> FALSE, parse |-> "none", strategy |-> "none",
                value |-> [t |-> "null"], trunc |-> FALSE, text |-> <<>>],
     answer |-> [raises |-> FALSE, parse |-> "none", strategy |-> "none",
                 value |-> [t |-> "null"], trunc |-> FALSE, text |-> <<>>]]

IdleTask ==
    [kind |-> "idle", pc |-> "idle",
     \* evaluate_case_from_text
     input |-> NoInput, hit |-> FALSE, provCalls |-> 0, llmCalls |-> 0,
     conts |-> 0, result |-> NoRecord, outcome |-> "none", error |-> "",
     \* evaluate_case
     exchange |-> NoExchange,
     \* evaluate_batch
     files |-> <<>>, idx |-> 0, results |-> <<>>,
     \* chat_case
     seeded |-> FALSE, first |-> <<>>, reply |-> <<>>, attempts |-> 0,
     raised |-> FALSE, raisedReply |-> <<>>, raisedCalls |-> 0]

\* datetime.utcnow(): every evaluation is created at a later time than the one
\* before.
Tick == now + 1

\* An awaited backend call: AsyncOpenAI suspends the coroutine, the Gemini SDK
\* call blocks inside it.
LoopDuringCall(t) == IF provider = "openai" THEN 0 ELSE t

\* A finished request is answered before the loop takes up anything else.
Collected == \A t \in Slots : tasks[t].pc # "done"

\* The loop is free: the next ready coroutine or the next request can run.
LoopFree == loop = 0 /\ Collected

\* A suspended coroutine resumes when the loop is free; a running one goes on.
CanRun(t) == Collected /\ (loop = t \/ loop = 0)

\* A request is taken by the first free slot (the slots are interchangeable).
FreeSlot(t) == tasks[t].kind = "idle" /\ \A u \in 1..(t - 1) : tasks[u].kind # "idle"

Failed(tk, err) == [tk EXCEPT !.pc = "eval_done", !.outcome = "error", !.error = err]

\* A cache check that never finds the digest.
NeverHit(c, digest) == FALSE

\* evaluator.py:107
CacheHit(c, digest) == digest \in DOMAIN c

\* A store that is left out.
StoreSkipped(c, digest, evaluation) == c

\* A store that replaces the cache by the one new entry.
StoreAlone(c, digest, evaluation) == [x \in {digest} |-> evaluation]

\* evaluator.py:222
CacheStore(c, digest, evaluation) == Put(c, digest, evaluation)

\* A continuation that is asked for as long as the text does not parse.
ContinuationUnbounded == MaxCalls

\* llm_adapter.py:852-882: the continuation is one `if`, not a loop
ContinuationRounds == 1

\* A failed first call that is made once more before the failure is passed on.
UpstreamRetried(tk) ==
    Failed([tk EXCEPT !.llmCalls = tk.llmCalls + 1], "UpstreamError")

\* llm_adapter.py:797-821: generate_content stands outside every try of
\* evaluate_case, so what it raises leaves evaluate_case and then
\* evaluate_case_from_text (evaluator.py:113) at once.
UpstreamFailure(tk) == Failed(tk, "UpstreamError")

\* evaluator.py:99-113 and the head of evaluate_case: the cache check, then
\* the provider.  OpenAIProvider defines no _build_prompt (GeminiProvider alone
\* does, llm_adapter.py:1110), so llm_adapter.py:380 raises AttributeError
\* before any backend call.  GeminiProvider builds the prompt and calls
\* generate_content.
EvalEnter(tk, input, c) ==
    LET fresh == [tk EXCEPT !.input = input, !.hit = FALSE, !.provCalls = 0,
                            !.llmCalls = 0, !.conts = 0, !.result = NoRecord,
                            !.outcome = "none", !.error = ""]
    IN  IF CacheHit(c, Digest(input))
        THEN [fresh EXCEPT !.pc = "eval_done", !.hit = TRUE,
                           !.result = c[Digest(input)], !.outcome = "record"]
        ELSE IF provider = "openai"
             THEN Failed([fresh EXCEPT !.provCalls = 1], "AttributeError")
        ELSE [fresh EXCEPT !.pc = "eval_wait1", !.provCalls = 1, !.llmCalls = 1]

\* evaluator.py:115-220: the record built from the decoded response
EvalBuild(tk, payload) ==
    IF BuildRaises(payload) THEN Failed(tk, "BuildError")
    ELSE [tk EXCEPT !.pc = "eval_done", !.outcome = "record",
                    !.result = BuildEvaluation(tk.input, payload, Tick)]

----------------------------------------------------------------------------
(* Routes: evaluate-text, evaluate-from-file, evaluate-batch.              *)

\* What a client can post to evaluate-text.
RouteInputs == Inputs \cup {[text |-> "", meta |-> MetaA],
                            [text |-> "t1", meta |-> MetaBad]}

\* Uploaded files: a name and the text its bytes decode to.
UploadFiles == {[name |-> "a.txt", bytes |-> "t1"],
                [name |-> "b.txt", bytes |-> "t2"],
                [name |-> "c.exe", bytes |-> "t1"],
                [name |-> "d.txt", bytes |-> ""]}

\* parsers.py:74-97: ValueError for an extension that is not pdf, docx or txt
ExtractRaises(file) == file.name \notin {"a.txt", "b.txt", "d.txt"}
ExtractTextFromFile(file) == file.bytes

\* The evaluator's input for an uploaded file and its metadata
FileInput(f) == [text |-> ExtractTextFromFile(f.file), meta |-> f.meta]

HttpError(tk, status) == [tk EXCEPT !.pc = "done", !.outcome = "error", !.error = status]

\* cases.py:135-144 and 194-205: the handler returns the record or turns the
\* failure into an HTTP error
RouteReturn(tk) == [tk EXCEPT !.pc = "done"]

\* The coroutine of the gather ends: its result or its exception is kept.
BatchChildDone(tk) ==
    [tk EXCEPT !.pc = "gather", !.idx = tk.idx + 1,
               !.results = Append(tk.results,
                                  [ok |-> tk.outcome = "record", rec |-> tk.result]),
               !.input = NoInput, !.hit = FALSE, !.provCalls = 0, !.llmCalls = 0,
               !.conts = 0, !.result = NoRecord, !.outcome = "none", !.error = ""]

\* evaluator.py:61-82: one coroutine of the gather, from its start to its
\* backend call or to its end
ChildEnter(tk, f, c) ==
    IF ExtractRaises(f.file)
    THEN Failed([tk EXCEPT !.input = FileInput(f)], "ValueError")
    ELSE EvalEnter(tk, FileInput(f), c)

\* What evaluate_case_from_text has returned to the coroutine, as it stands
\* after a step.
ReturnedBy(tk) ==
    IF tk.kind = "batch"
    THEN {[input |-> FileInput(tk.files[i]), rec |-> tk.results[i].rec] :
             i \in {j \in 1..Len(tk.results) : tk.results[j].ok}}
    ELSE IF tk.pc = "done" /\ tk.outcome = "record"
         THEN {[input |-> tk.input, rec |-> tk.result]}
    ELSE {}

\* The coroutine of slot t has run up to next: an await or the end of the
\* handler.  A route that got a record stores it with its text (cases.py:137-138,
\* 197-198).
Settle(t, next) ==
    LET stores == next.pc = "done" /\ next.outcome = "record"
    IN  /\ tasks' = [tasks EXCEPT ![t] = next]
        /\ loop' = IF next.pc \in {"eval_wait1", "eval_wait2"}
                   THEN LoopDuringCall(t) ELSE 0
        /\ evaluated_cases' =
               IF stores THEN Put(evaluated_cases, next.result.case_id, next.result)
               ELSE evaluated_cases
        /\ evaluated_case_texts' =
               IF stores
               THEN Put(evaluated_case_texts, next.result.case_id, next.input.text)
               ELSE evaluated_case_texts
        /\ returned' = returned \cup ReturnedBy(next)

\* The first coroutine of the gather, from tk.idx on, that waits for the
\* backend; Len(tk.files) + 1 when none does.
FirstWaiting(tk, c) ==
    LET n == Len(tk.files)
        Ends(i) == ChildEnter(IdleTask, tk.files[i], c).pc = "eval_done"
    IN  CHOOSE i \in tk.idx..(n + 1) :
           /\ i <= n => ~Ends(i)
           /\ \A j \in tk.idx..(i - 1) : Ends(j)

\* The results of the coroutines tk.idx .. stop - 1, which end without a
\* backend call.
EndedResults(tk, stop, c) ==
    [i \in 1..(stop - tk.idx) |->
        LET child == ChildEnter(IdleTask, tk.files[tk.idx + i - 1], c)
        IN  [ok |-> child.outcome = "record", rec |-> child.result]]

\* evaluator.py:61-82 under asyncio.gather (cases.py:467): the coroutines of
\* the gather were queued one behind the other (Task.__init__ calls
\* loop.call_soon), so each runs right after the one before it, until one
\* waits for the backend (the coroutine `stop`) or the last one has ended.
GatherRun(t, tk, c) ==
    \E stop \in {FirstWaiting(tk, c)} :
       \E at \in {[tk EXCEPT !.idx = stop,
                             !.results = tk.results \o EndedResults(tk, stop, c)]} :
          \E next \in {IF stop > Len(tk.files) THEN [at EXCEPT !.pc = "gathered"]
                       ELSE ChildEnter(at, tk.files[stop], c)} :
             Settle(t, next)

\* The coroutine goes on after evaluate_case_from_text has come to its backend
\* call or to its end, with the cache c: the route returns, the gather runs
\* its next coroutine.
Proceed(t, tk, c) ==
    IF tk.pc = "eval_done" /\ tk.kind = "batch"
    THEN \E ended \in {BatchChildDone(tk)} : GatherRun(t, ended, c)
    ELSE \E next \in {IF tk.pc = "eval_done" THEN RouteReturn(tk) ELSE tk} :
            Settle(t, next)

\* evaluator.py:222-224: a record that was built is stored in the cache and
\* returned; then the coroutine goes on.
StoreAndProceed(t, tk) ==
    LET built == tk.pc = "eval_done" /\ tk.outcome = "record"
    IN  \E c \in {IF built THEN CacheStore(cache, Digest(tk.input), tk.result)
                  ELSE cache} :
           /\ cache' = c
           /\ now' = IF built THEN Tick ELSE now
           /\ everStored' = IF built THEN everStored \cup {tk.input} ELSE everStored
           /\ Proceed(t, tk, c)

\* cases.py:153-205: validation, then evaluate_case_from_text up to its
\* backend call or its end
StartEvaluateText(t, in) ==
    /\ requests < MaxRequests
    /\ requests' = requests + 1
    /\ UNCHANGED probe
    /\ LoopFree
    /\ FreeSlot(t)
    /\ LET tk == [IdleTask EXCEPT !.kind = "evaluate_text"]
       IN  IF in.meta.case_type \notin CaseTypes \/ in.text = ""
           THEN /\ tasks' = [tasks EXCEPT ![t] = HttpError(tk, "400")]
                /\ UNCHANGED <<loop, evaluated_cases, evaluated_case_texts, returned>>
           ELSE \E entered \in {EvalEnter(tk, in, cache)} :
                   Proceed(t, entered, cache)
    /\ UNCHANGED <<provider, cacheFile, evaluator, cache, now, everStored>>

\* cases.py:87-119: validation, then the handler awaits file.read()
StartEvaluateFromFile(t, file, meta) ==
    /\ requests < MaxRequests
    /\ requests' = requests + 1
    /\ UNCHANGED probe
    /\ LoopFree
    /\ FreeSlot(t)
    /\ tasks' = [tasks EXCEPT ![t] =
           IF meta.case_type \notin CaseTypes
           THEN HttpError([IdleTask EXCEPT !.kind = "evaluate_file"], "400")
           ELSE [IdleTask EXCEPT !.kind = "evaluate_file", !.pc = "file_read",
                                 !.files = <<[file |-> file, meta |-> meta]>>]]
    /\ UNCHANGED <<provider, cacheFile, evaluator, cache, evaluated_cases,
                   evaluated_case_texts, loop, now, returned, everStored>>

\* cases.py:119-150: the bytes are there; the text is extracted and
\* evaluate_case_from_text runs up to its backend call or its end
FileRead(t) ==
    /\ UNCHANGED <<requests, probe>>
    /\ LoopFree
    /\ tasks[t].pc = "file_read"
    /\ LET tk == tasks[t]
           f == tk.files[1]
       IN  IF f.file.bytes = "" \/ ExtractRaises(f.file)
           THEN /\ tasks' = [tasks EXCEPT ![t] = HttpError(tk, "400")]
                /\ UNCHANGED <<loop, evaluated_cases, evaluated_case_texts, returned>>
           ELSE \E entered \in {EvalEnter(tk, FileInput(f), cache)} :
                   Proceed(t, entered, cache)
    /\ UNCHANGED <<provider, cacheFile, evaluator, cache, now, everStored>>

\* llm_adapter.py:797-862: what evaluate_case and evaluate_case_from_text do
\* with the first answer: the failure of the call is passed on; a value that
\* json.loads or a repair gave is returned and the record built from it; when
\* none gave a value and the text looks truncated the continuation is asked
\* for; else ValueError
FirstResponse(tk, ans) ==
    IF ans.raises THEN UpstreamFailure(tk)
    ELSE IF ans.parse # "fail" THEN EvalBuild(tk, ans.value)
    ELSE IF ans.trunc
         THEN [tk EXCEPT !.pc = "eval_wait2", !.conts = 1,
                         !.llmCalls = tk.llmCalls + 1]
    ELSE Failed(tk, "ValueError")

\* llm_adapter.py:863-890: what they do with the answer of the continuation
ContinuationResponse(tk, ans) ==
    IF ans.raises THEN Failed(tk, "ValueError")
    ELSE IF ans.parse # "fail" THEN EvalBuild(tk, ans.value)
    ELSE IF tk.conts < ContinuationRounds /\ tk.llmCalls < MaxCalls
         THEN [tk EXCEPT !.conts = tk.conts + 1,
                         !.llmCalls = tk.llmCalls + 1]
    ELSE Failed(tk, "ValueError")

\* llm_adapter.py:797-890 and evaluator.py:115-224: the first response, the
\* repairs tried on it, and what follows it without a further await
EvalFirstResponse(t) ==
    /\ UNCHANGED <<requests, probe>>
    /\ CanRun(t)
    /\ tasks[t].pc = "eval_wait1"
    /\ \E ans \in StructuredAnswers :
          \E answered \in {FirstResponse(tasks[t], ans)} :
             StoreAndProceed(t, answered)
    /\ UNCHANGED <<provider, cacheFile, evaluator>>

\* llm_adapter.py:863-890 and evaluator.py:115-224: the continuation's answer
EvalContinuationResponse(t) ==
    /\ UNCHANGED <<requests, probe>>
    /\ CanRun(t)
    /\ tasks[t].pc = "eval_wait2"
    /\ \E ans \in ContinuationAnswers :
          \E answered \in {ContinuationResponse(tasks[t], ans)} :
             StoreAndProceed(t, answered)
    /\ UNCHANGED <<provider, cacheFile, evaluator>>

\* A call of the backend that failed (network, quota).
RaisedAnswer ==
    [raises |-> TRUE, parse |-> "fail", strategy |-> "none", value |-> JNull,
     trunc |-> FALSE, text |-> <<>>]

\* EvalFirstResponse with the answer as a text: the coroutine keeps the text,
\* what evaluate_case made of it (first) and what it ended with (answer).
TextFirstResponse(t) ==
    /\ UNCHANGED <<requests, probe>>
    /\ CanRun(t)
    /\ tasks[t].pc = "eval_wait1"
    /\ \E raw \in ResponseTexts \cup {<<"raise">>} :
          \E ans \in {IF raw = <<"raise">> THEN RaisedAnswer ELSE Cascade(text) :
                         text \in {StripMarkdownJson(raw)}} :
             \E answered \in {[FirstResponse(tasks[t], ans) EXCEPT
                                  !.exchange = [raw |-> raw, cont |-> <<>>,
                                                first |-> ans, answer |-> ans]]} :
                StoreAndProceed(t, answered)
    /\ UNCHANGED <<provider, cacheFile, evaluator>>

\* EvalContinuationResponse with the answer as a text
TextContinuationResponse(t) ==
    /\ UNCHANGED <<requests, probe>>
    /\ CanRun(t)
    /\ tasks[t].pc = "eval_wait2"
    /\ \E cont \in ContinuationTexts \cup {<<"raise">>} :
          \E ans \in {IF cont = <<"raise">> THEN RaisedAnswer
                      ELSE CombinedCascade(combined) :
                         combined \in {tasks[t].exchange.first.text
                                           \o StripMarkdownJson(cont)}} :
             \E answered \in {[ContinuationResponse(tasks[t], ans) EXCEPT
                                  !.exchange.cont = cont,
                                  !.exchange.answer = ans]} :
                StoreAndProceed(t, answered)
    /\ UNCHANGED <<provider, cacheFile, evaluator>>

\* The files of one evaluate-batch request, with their metadata.
BatchItems == {[file |-> [name |-> "a.txt", bytes |-> "t1"], meta |-> MetaA],
               [file |-> [name |-> "b.txt", bytes |-> "t2"], meta |-> MetaSeed],
               [file |-> [name |-> "c.exe", bytes |-> "t1"], meta |-> MetaA]}
BatchLists == UNION {[1..n -> BatchItems] : n \in 1..MaxBatch}

\* cases.py:359-467: validation, one coroutine per file, await asyncio.gather.
\* The handler suspends; what is already ready on the loop runs before the
\* coroutines of the gather.
StartEvaluateBatch(t, list) ==
    /\ requests < MaxRequests
    /\ requests' = requests + 1
    /\ UNCHANGED probe
    /\ LoopFree
    /\ FreeSlot(t)
    /\ tasks' = [tasks EXCEPT ![t] =
           [IdleTask EXCEPT !.kind = "batch", !.pc = "gather", !.files = list,
                            !.idx = 1]]
    /\ UNCHANGED <<provider, cacheFile, evaluator, cache, evaluated_cases,
                   evaluated_case_texts, loop, now, returned, everStored>>

\* cases.py:467: the coroutines of the gather run
GatherStart(t) ==
    /\ UNCHANGED <<requests, probe>>
    /\ LoopFree
    /\ tasks[t].pc = "gather"
    /\ GatherRun(t, tasks[t], cache)
    /\ UNCHANGED <<provider, cacheFile, evaluator, cache, now, everStored>>

RECURSIVE StoreResults(_, _)
\* cases.py:472-493: every successful result is stored, in order (no text)
StoreResults(results, cases) ==
    IF results = <<>> THEN cases
    ELSE LET r == Head(results)
         IN  StoreResults(Tail(results),
                          IF r.ok THEN Put(cases, r.rec.case_id, r.rec) ELSE cases)

\* cases.py:467-518: the gather is over; the handler resumes
BatchFinish(t) ==
    /\ UNCHANGED <<requests, probe>>
    /\ LoopFree
    /\ tasks[t].pc = "gathered"
    /\ evaluated_cases' = StoreResults(tasks[t].results, evaluated_cases)
    /\ tasks' = [tasks EXCEPT ![t] = [tasks[t] EXCEPT !.pc = "done"]]
    /\ UNCHANGED <<provider, cacheFile, evaluator, cache, evaluated_case_texts, loop, now,
                   returned, everStored>>

----------------------------------------------------------------------------
(* Routes: seed-case, delete, clear.                                       *)

\* cases.py:31-84
SeedCase(case_id, title) ==
    /\ requests < MaxRequests
    /\ requests' = requests + 1
    /\ UNCHANGED probe
    /\ LoopFree
    /\ evaluated_cases' =
           Put(evaluated_cases, case_id, SeedEvaluation(case_id, title, now))
    /\ evaluated_case_texts' = Put(evaluated_case_texts, case_id, SeededText)
    /\ UNCHANGED <<provider, cacheFile, evaluator, cache, tasks, loop, now, returned, everStored>>

\* cases.py:326-341 (404 when the case is unknown)
DeleteCase(case_id) ==
    /\ requests < MaxRequests
    /\ requests' = requests + 1
    /\ UNCHANGED probe
    /\ LoopFree
    /\ case_id \in DOMAIN evaluated_cases
    /\ evaluated_cases' = Del(evaluated_cases, case_id)
    /\ UNCHANGED <<provider, cacheFile, evaluator, cache, evaluated_case_texts, tasks, loop,
                   now, returned, everStored>>

\* cases.py:344-350
ClearAllCases ==
    /\ requests < MaxRequests
    /\ requests' = requests + 1
    /\ UNCHANGED probe
    /\ LoopFree
    /\ evaluated_cases # EmptyMap
    /\ evaluated_cases' = EmptyMap
    /\ UNCHANGED <<provider, cacheFile, evaluator, cache, evaluated_case_texts, tasks, loop,
                   now, returned, everStored>>

----------------------------------------------------------------------------
(* Route: chat.                                                            *)

RECURSIVE FactorLines(_)
\* cases.py:282-283: one "- factor" part per key factor, joined by "\n\n"
FactorLines(factors) ==
    IF factors = <<>> THEN <<>>
    ELSE <<"\n", "\n", "-", " ">> \o Head(factors) \o FactorLines(Tail(factors))

\* cases.py:277-284: the reply synthesized for a seeded case
SeedReply(evaluation) ==
    <<"%", ".", "\n", "\n">> \o evaluation.legal_merit.reasoning
    \o <<"\n", "\n", ":">>
    \o FactorLines(SubSeq(evaluation.legal_merit.key_factors, 1,
                          Min(5, Len(evaluation.legal_merit.key_factors))))

\* cases.py:290: while attempts < 2
ChatAttempts == 2

\* cases.py:289-316, from the head of the while loop to the next await or to
\* the return: the task after the loop head is entered with this reply.
ChatLoopHead(tk, t) ==
    IF tk.attempts >= ChatAttempts
    THEN [tk EXCEPT !.pc = "done", !.outcome = "answer"]
    ELSE IF LooksTruncated(tk.reply)
         THEN [tk EXCEPT !.pc = "chat_waitA", !.attempts = tk.attempts + 1,
                         !.llmCalls = Min(tk.llmCalls + 1, MaxCalls)]
    ELSE IF tk.reply # <<>> /\ ~EndsSentence(tk.reply)
         THEN [tk EXCEPT !.pc = "chat_waitB", !.attempts = tk.attempts + 1,
                         !.llmCalls = Min(tk.llmCalls + 1, MaxCalls)]
    ELSE [tk EXCEPT !.pc = "done", !.attempts = tk.attempts + 1,
                    !.outcome = "answer"]

\* The loop after a step: released at an await of AsyncOpenAI and at the return.
LoopAfter(tk, t) ==
    IF tk.pc = "done" THEN 0
    ELSE IF tk.pc \in {"chat_wait0", "chat_waitA", "chat_waitB"} THEN LoopDuringCall(t)
    ELSE t

\* cases.py:246-287: the case is looked up; a seeded case gets a local reply,
\* any other one a generate_text call
StartChat(t, case_id) ==
    /\ requests < MaxRequests
    /\ requests' = requests + 1
    /\ UNCHANGED probe
    /\ LoopFree
    /\ FreeSlot(t)
    /\ LET tk == [IdleTask EXCEPT !.kind = "chat"]
           next ==
               IF case_id \notin DOMAIN evaluated_cases
               THEN HttpError(tk, "404")
               ELSE IF TitleHasSeed(evaluated_cases[case_id].case_title)
                    THEN ChatLoopHead(
                             [tk EXCEPT !.seeded = TRUE,
                                        !.first = SeedReply(evaluated_cases[case_id]),
                                        !.reply = SeedReply(evaluated_cases[case_id])], t)
               ELSE [tk EXCEPT !.pc = "chat_wait0", !.llmCalls = 1]
       IN  /\ tasks' = [tasks EXCEPT ![t] = next]
           /\ loop' = LoopAfter(next, t)
    /\ UNCHANGED <<provider, cacheFile, evaluator, cache, evaluated_cases,
                   evaluated_case_texts, now, returned, everStored>>

\* cases.py:287: the first reply arrives (generate_text strips it), or the call
\* fails and the route answers 500
ChatFirstReply(t) ==
    /\ UNCHANGED <<requests, probe>>
    /\ CanRun(t)
    /\ tasks[t].pc = "chat_wait0"
    /\ \E raises \in BOOLEAN, text \in ChatFirstTexts :
          LET tk == tasks[t]
              next == IF raises THEN HttpError(tk, "500")
                      ELSE ChatLoopHead([tk EXCEPT !.first = StripMarkdownJson(text),
                                                   !.reply = StripMarkdownJson(text)], t)
          IN  /\ tasks' = [tasks EXCEPT ![t] = next]
              /\ loop' = LoopAfter(next, t)
    /\ UNCHANGED <<provider, cacheFile, evaluator, cache, evaluated_cases,
                   evaluated_case_texts, now, returned, everStored>>

\* A failed continuation that fails the request.
ChatFailOnError(tk) ==
    [tk EXCEPT !.pc = "done", !.outcome = "error", !.error = "500", !.raised = TRUE,
               !.raisedReply = tk.reply, !.raisedCalls = tk.llmCalls]

\* cases.py:314-316: a continuation call raised; the loop is left
ChatBreakOnError(tk) ==
    [tk EXCEPT !.pc = "done", !.outcome = "answer", !.raised = TRUE,
               !.raisedReply = tk.reply, !.raisedCalls = tk.llmCalls]

\* cases.py:293-302: the answer of the continuation asked because the reply
\* looks truncated
ChatContinuationA(t) ==
    /\ UNCHANGED <<requests, probe>>
    /\ CanRun(t)
    /\ tasks[t].pc = "chat_waitA"
    /\ \E raises \in BOOLEAN, text \in ChatContTexts :
          LET tk == tasks[t]
              cont == StripMarkdownJson(text)
              joined == [tk EXCEPT !.reply = tk.reply \o cont]
              next ==
                  IF raises THEN ChatBreakOnError(tk)
                  ELSE IF Strip(cont) # <<>>
                       THEN IF ~LooksTruncated(joined.reply)
                            THEN [joined EXCEPT !.pc = "done", !.outcome = "answer"]
                            ELSE ChatLoopHead(joined, t)
                  \* an empty continuation: the second test of the same round
                  ELSE IF tk.reply # <<>> /\ ~EndsSentence(tk.reply)
                       THEN [tk EXCEPT !.pc = "chat_waitB",
                                       !.llmCalls = Min(tk.llmCalls + 1, MaxCalls)]
                  ELSE [tk EXCEPT !.pc = "done", !.outcome = "answer"]
          IN  /\ tasks' = [tasks EXCEPT ![t] = next]
              /\ loop' = LoopAfter(next, t)
    /\ UNCHANGED <<provider, cacheFile, evaluator, cache, evaluated_cases,
                   evaluated_case_texts, now, returned, everStored>>

\* cases.py:303-313: the answer of the continuation asked because the reply
\* does not end a sentence
ChatContinuationB(t) ==
    /\ UNCHANGED <<requests, probe>>
    /\ CanRun(t)
    /\ tasks[t].pc = "chat_waitB"
    /\ \E raises \in BOOLEAN, text \in ChatContTexts :
          LET tk == tasks[t]
              cont == StripMarkdownJson(text)
              joined == [tk EXCEPT !.reply = tk.reply \o cont]
              next ==
                  IF raises THEN ChatBreakOnError(tk)
                  ELSE IF Strip(cont) # <<>>
                       THEN IF ~LooksTruncated(joined.reply)
                            THEN [joined EXCEPT !.pc = "done", !.outcome = "answer"]
                            ELSE ChatLoopHead(joined, t)
                  ELSE [tk EXCEPT !.pc = "done", !.outcome = "answer"]
          IN  /\ tasks' = [tasks EXCEPT ![t] = next]
              /\ loop' = LoopAfter(next, t)
    /\ UNCHANGED <<provider, cacheFile, evaluator, cache, evaluated_cases,
                   evaluated_case_texts, now, returned, everStored>>

----------------------------------------------------------------------------
(* The system.                                                             *)

\* A finished request leaves its slot.
Retire(t) ==
    /\ UNCHANGED <<requests, probe>>
    /\ tasks[t].pc = "done"
    /\ tasks' = [tasks EXCEPT ![t] = IdleTask]
    /\ UNCHANGED <<provider, cacheFile, evaluator, cache, evaluated_cases,
                   evaluated_case_texts, loop, now, returned, everStored>>

\* The process is restarted: routes/cases.py is imported again, a new
\* CaseEvaluator loads the cache file (evaluator.py:28-59, cases.py:19-22).
Restart ==
    /\ Collected
    /\ cache' = LoadCache(cacheFile)
    /\ evaluated_cases' = EmptyMap
    /\ evaluated_case_texts' = EmptyMap
    /\ tasks' = [t \in Slots |-> IdleTask]
    /\ loop' = 0
    /\ UNCHANGED <<provider, cacheFile, evaluator, now, returned, everStored, requests, probe>>

\* What a client can post to evaluate-from-file.
FileRequests ==
    {[file |-> f, meta |-> MetaA] : f \in UploadFiles \ {[name |-> "b.txt", bytes |-> "t2"]}}
    \cup {[file |-> [name |-> "b.txt", bytes |-> "t2"], meta |-> MetaSeed],
          [file |-> [name |-> "a.txt", bytes |-> "t1"], meta |-> MetaBad]}

CaseIds == {CaseId(d) : d \in Digests} \cup UuidIds

Init ==
    /\ provider \in {"openai", "gemini"}
    /\ cacheFile \in CacheFiles
    /\ evaluator = "CaseEvaluator"
    /\ cache = LoadCache(cacheFile)
    /\ evaluated_cases = EmptyMap
    /\ evaluated_case_texts = EmptyMap
    /\ tasks = [t \in Slots |-> IdleTask]
    /\ loop = 0
    /\ now = 0
    /\ returned = {}
    /\ everStored = {}
    /\ requests = 0
    /\ probe = NoProbe

Step ==
    \/ \E t \in Slots, in \in RouteInputs : StartEvaluateText(t, in)
    \/ \E t \in Slots, r \in FileRequests : StartEvaluateFromFile(t, r.file, r.meta)
    \/ \E t \in Slots : FileRead(t)
    \/ \E t \in Slots : EvalFirstResponse(t)
    \/ \E t \in Slots : EvalContinuationResponse(t)
    \/ \E t \in Slots, list \in BatchLists : StartEvaluateBatch(t, list)
    \/ \E t \in Slots : GatherStart(t)
    \/ \E t \in Slots : BatchFinish(t)
    \/ \E id \in UuidIds, title \in SeedTitles : SeedCase(id, title)
    \/ \E id \in CaseIds : DeleteCase(id)
    \/ ClearAllCases
    \/ \E t \in Slots, id \in CaseIds : StartChat(t, id)
    \/ \E t \in Slots : ChatFirstReply(t)
    \/ \E t \in Slots : ChatContinuationA(t)
    \/ \E t \in Slots : ChatContinuationB(t)

\* One run of the process.
Next == Step \/ (\E t \in Slots : Retire(t))
Spec == Init /\ [][Next]_vars

\* evaluate-text requests whose backend answers are texts.
NextEvaluate ==
    \/ \E t \in Slots, in \in RouteInputs : StartEvaluateText(t, in)
    \/ \E t \in Slots : TextFirstResponse(t)
    \/ \E t \in Slots : TextContinuationResponse(t)
    \/ \E t \in Slots : Retire(t)
SpecEvaluate == Init /\ [][NextEvaluate]_vars

\* The process and its restarts.
NextRestart == Next \/ Restart
SpecRestart == Init /\ [][NextRestart]_vars

----------------------------------------------------------------------------
(* The load of the cache file, over the files of LoadFiles.                *)

\* Entries of one cache file.
MaxFileEntries == 3

FileEntryChoices ==
    {ValidEntry(Digest(i), FileRecord(i)) : i \in {In0, In1, In2}}
    \cup {InvalidEntry(Digest(i)) : i \in {In0, In1, In2}}

\* A JSON object has each key once.
DistinctKeys(entries) ==
    \A i, j \in DOMAIN entries : i # j => entries[i].k # entries[j].k

LoadFiles ==
    {[kind |-> k, entries |-> <<>>] : k \in {"missing", "corrupt", "notdict"}}
    \cup {[kind |-> "dict", entries |-> e] :
             e \in {x \in UNION {[1..n -> FileEntryChoices] : n \in 0..MaxFileEntries} :
                       DistinctKeys(x)}}

\* The module is imported, no CaseEvaluator is made yet.
InitLoad ==
    /\ provider \in {"openai", "gemini"}
    /\ cacheFile \in LoadFiles
    /\ evaluator = "unset"
    /\ cache = EmptyMap
    /\ evaluated_cases = EmptyMap
    /\ evaluated_case_texts = EmptyMap
    /\ tasks = [t \in Slots |-> IdleTask]
    /\ loop = 0
    /\ now = 0
    /\ returned = {}
    /\ everStored = {}
    /\ requests = 0
    /\ probe = NoProbe

\* cases.py:22 and evaluator.py:28-59: evaluator = CaseEvaluator()
Construct ==
    /\ evaluator = "unset"
    /\ evaluator' = "CaseEvaluator"
    /\ cache' = LoadCache(cacheFile)
    /\ UNCHANGED <<provider, cacheFile, evaluated_cases, evaluated_case_texts,
                   tasks, loop, now, returned, everStored, requests, probe>>

SpecLoad == InitLoad /\ [][Construct]_vars

----------------------------------------------------------------------------
(* The record built from a decoded response (evaluator.py:115-220), over   *)
(* the responses of BuildPayloads.                                         *)

\* Scores in tenths: the thresholds, the ends and the scores of the examples.
ScoreGrid == {0, 20, 30, 40, 50, 80, 90, 100}

\* A response whose three scores are m, d and c.
ScoresPayload(m, d, c) ==
    Payload(Dim("num", m, TRUE, <<>>), Dim("num", d, TRUE, <<>>),
            Dim("num", c, TRUE, <<>>))

FourSentences ==
    <<"A", ".", " ", "B", "?", " ", "\n", "C", "!", " ", "D", ".">>

\* Values of "key_factors" in a response.
FactorValues ==
    {JArr(<<JStr(<<"x">>), JStr(<<>>), JStr(<<"y">>)>>),
     JArr(<<JStr(<<" ", "x", " ">>), JNull, JNum(80), JStr(<<" ">>)>>),
     JArr(<<>>),
     JArr(<<JStr(<<LongWord>>), JStr(<<"x">>)>>),
     JStr(<<"A", ";", " ", "B", ";", " ", "C">>),
     JStr(<<"-", " ", "A", "\n", Bullet, "B", ";", "\n", "\n", "-">>),
     JStr(<<"A", Bullet, " ", "B">>),
     JStr(<<"A", ";", "B", Bullet, "C">>),
     JStr(FourSentences),
     JStr(<<LongWord, ";", " ", "B">>),
     JStr(<<LongWord, ";", LongWord>>),
     JStr(<<" ", LongWord, ".", " ">>),
     JStr(<<>>),
     JStr(<<" ", "\n">>),
     JStr(<<";">>),
     JObj(<< <<Key("key_factors"), JStr(<<"A", ";", "B">>)>> >>),
     JObj(<< <<Key("key_factors"), JArr(<<JStr(<<"x">>)>>)>> >>),
     EmptyObj, JNull, JNum(80)}

\* Values of "reasoning" next to them.
FactorReasonings ==
    {JStr(FourSentences), JStr(Reasoned), JStr(<<" ">>),
     JStr(<<LongWord, ".", " ", "B", ".">>)}

\* One dimension with its key_factors and reasoning, either of them absent.
FactorDims ==
    {JObj(<< <<Key("reasoning"), r>>, <<Key("key_factors"), f>> >>) :
        r \in FactorReasonings, f \in FactorValues}
    \cup {JObj(<< <<Key("key_factors"), f>> >>) : f \in FactorValues}
    \cup {JObj(<< <<Key("reasoning"), r>> >>) : r \in FactorReasonings}

\* The decoded responses a record is built from.
BuildPayloads ==
    {ScoresPayload(m, d, c) : m \in ScoreGrid, d \in ScoreGrid, c \in ScoreGrid}
    \cup {JObj(<< <<Key("legal_merit"), dim>> >>) : dim \in FactorDims}

\* evaluate_case has returned llm_response; nothing is built yet.
InitBuild ==
    /\ provider = "gemini"
    /\ cacheFile \in {f \in CacheFiles : f.kind = "missing"}
    /\ evaluator = "CaseEvaluator"
    /\ cache = EmptyMap
    /\ evaluated_cases = EmptyMap
    /\ evaluated_case_texts = EmptyMap
    /\ tasks = [t \in Slots |-> IdleTask]
    /\ loop = 0
    /\ now = 0
    /\ returned = {}
    /\ everStored = {}
    /\ requests = 0
    /\ probe \in {[fn |-> "llm_response", payload |-> p] : p \in BuildPayloads}

\* evaluator.py:115-220: the record of the response, or the exception
Build ==
    /\ probe.fn = "llm_response"
    /\ probe' = [fn |-> "evaluation", payload |-> probe.payload,
                 raises |-> BuildRaises(probe.payload),
                 record |-> IF BuildRaises(probe.payload) THEN NoRecord
                            ELSE BuildEvaluation(In1, probe.payload, 0)]
    /\ UNCHANGED <<provider, cacheFile, evaluator, cache, evaluated_cases,
                   evaluated_case_texts, tasks, loop, now, returned, everStored,
                   requests>>

SpecBuild == InitBuild /\ [][Build]_vars

----------------------------------------------------------------------------
(* The repairs of llm_adapter.py called on their own, over every text of a *)
(* small alphabet and over some longer texts.                              *)

\* The characters of the enumerated texts: the quote, the backslash, the
\* braces and brackets, the comma, white space, a control character and an
\* ordinary letter.
ScanAlphabet == {"\"", "\\", "{", "}", "[", "]", ",", " ", "\n", "a"}

\* The enumerated texts are this long at most.
MaxScanLen == 4

\* The response of the truncation example: an unterminated string inside two
\* open objects.
TruncatedExample ==
    <<"{", "\"", "legal_merit", "\"", ":", " ", "{", "\"", "score", "\"", ":",
      " ", "7", ",", " ", "\"", "reasoning", "\"", ":", " ", "\"", "o", "k">>

\* Well-formed JSON with objects and arrays inside one another.
NestedValues ==
    {JArr(<<JObj(<< <<Key("a"), JArr(<<JNum(80), JObj(<<>>)>>)>> >>), JNum(70)>>),
     JObj(<< <<Key("a"), JArr(<<JObj(<< <<Key("b"), JArr(<<JStr(<<"[">>)>>)>> >>)>>)>> >>)}

\* The prefixes of those texts, the whole text included.
NestedPrefixes ==
    UNION {Prefixes(TextOf(v)) \cup {TextOf(v)} : v \in NestedValues}

\* Longer texts with a defect a repair is there for.
DefectTexts ==
    {<<"{", "\"", "k", "\"", ":", "[", "8", ",", " ", "]", ",", "\n", "}">>,
     <<"{", "\"", "k", "\"", ":", "\"", "a", ",", "]", "\"", ",", "}">>,
     <<"{", "\"", "k", "\"", ":", "\"", "\\", "\\", "\"", ",", "\"", "j", "\"",
       ":", "\"", "\n", "\"", "}">>,
     <<"{", "\"", "k", "\"", ":", "\"", "\\", "a", "\"", "}">>,
     <<"x", "{", "\"", "k", "\"", ":", "[", "8">>,
     <<"x", " ", "{", "\"", "k", "\"", ":", "\"", "\n", "\"", "}", " ", "x">>}

ScanTexts ==
    UNION {[1..n -> ScanAlphabet] : n \in 0..MaxScanLen}
    \cup {TruncatedExample} \cup NestedPrefixes \cup DefectTexts \cup OddResponses

\* The loops over the characters of a text that keep an in_string flag.
PrevCharScanners ==
    {"_escape_control_chars", "_close_unterminated_structures", "_fix_invalid_escapes"}
EscapeStateScanners ==
    {"_complete_truncated_json", "_fix_json_newlines", "_extract_and_repair_json"}
Scanners == PrevCharScanners \cup EscapeStateScanners

\* Where the loop of a scanner starts: _extract_and_repair_json starts at the
\* first brace (and has no loop without one), _complete_truncated_json after
\* the white space it strips, the others at the first character.
ScanFrom(body, text) ==
    IF body = "_extract_and_repair_json"
    THEN (IF Find(text, "{") = 0 THEN Len(text) + 1 ELSE Find(text, "{"))
    ELSE IF body = "_complete_truncated_json"
    THEN Len(text) - Len(LStrip(text)) + 1
    ELSE 1

\* Where it ends unless it breaks.
ScanTo(body, text) ==
    IF body = "_complete_truncated_json" THEN Len(RStrip(text)) ELSE Len(text)

\* The indexes a scanner has gone through: _extract_and_repair_json stops at
\* the brace that closes the first one.
ScannedBy(body, text) ==
    {k \in ScanFrom(body, text)..ScanTo(body, text) :
        k = ScanFrom(body, text)
        \/ Loop(body, text, ScanFrom(body, text), k - 1, LoopStart).end = 0}

\* in_string after the character at each index the scanner has gone through.
FlagsOf(body, text) ==
    [k \in ScannedBy(body, text) |->
        Loop(body, text, ScanFrom(body, text), k, LoopStart).in_string]

\* llm_adapter.py:999-1036: json_candidate, when the text has a brace
CandidateOf(text) ==
    IF Find(text, "{") = 0 THEN [found |-> FALSE, text |-> <<>>]
    ELSE [found |-> TRUE, text |-> JsonCandidate(text, Find(text, "{"))]

\* _looks_truncated(text) for an Optional[str]: None is JNull here
LooksTruncatedOf(text) == IF text.t = "null" THEN FALSE ELSE LooksTruncated(text.s)

\* Nothing is called yet.
InitScan ==
    /\ provider = "gemini"
    /\ cacheFile \in {f \in CacheFiles : f.kind = "missing"}
    /\ evaluator = "CaseEvaluator"
    /\ cache = EmptyMap
    /\ evaluated_cases = EmptyMap
    /\ evaluated_case_texts = EmptyMap
    /\ tasks = [t \in Slots |-> IdleTask]
    /\ loop = 0
    /\ now = 0
    /\ returned = {}
    /\ everStored = {}
    /\ requests = 0
    /\ probe \in {[fn |-> "text", text |-> v] : v \in {JNull} \cup {JStr(s) : s \in ScanTexts}}

\* LLMProvider._looks_truncated(text)
LooksTruncatedCall ==
    /\ probe.fn = "text"
    /\ probe' = [fn |-> "_looks_truncated", text |-> probe.text,
                 result |-> LooksTruncatedOf(probe.text)]
    /\ UNCHANGED <<provider, cacheFile, evaluator, cache, evaluated_cases,
                   evaluated_case_texts, tasks, loop, now, returned, everStored,
                   requests>>

\* The repairs, each called on the text, and the in_string flags of their
\* loops.
RepairCalls ==
    /\ probe.fn = "text"
    /\ probe.text.t = "str"
    /\ probe' = [fn |-> "repairs", text |-> probe.text.s,
                 completed |-> CompleteTruncatedJson(probe.text.s),
                 commas |-> RemoveTrailingCommas(probe.text.s),
                 escaped |-> EscapeControlChars(probe.text.s),
                 closed |-> CloseUnterminatedStructures(probe.text.s),
                 unescaped |-> FixInvalidEscapes(probe.text.s),
                 candidate |-> CandidateOf(probe.text.s),
                 flags |-> [body \in Scanners |-> FlagsOf(body, probe.text.s)]]
    /\ UNCHANGED <<provider, cacheFile, evaluator, cache, evaluated_cases,
                   evaluated_case_texts, tasks, loop, now, returned, everStored,
                   requests>>

\* GeminiProvider.evaluate_case on a response text (llm_adapter.py:809-849)
CascadeCall ==
    /\ probe.fn = "text"
    /\ probe.text.t = "str"
    /\ probe' = [fn |-> "cascade", text |-> probe.text.s,
                 answer |-> AnswerOf(probe.text.s)]
    /\ UNCHANGED <<provider, cacheFile, evaluator, cache, evaluated_cases,
                   evaluated_case_texts, tasks, loop, now, returned, everStored,
                   requests>>

NextScan == LooksTruncatedCall \/ RepairCalls \/ CascadeCall

SpecScan == InitScan /\ [][NextScan]_vars

----------------------------------------------------------------------------
(* Properties.                                                             *)

EvalKinds == {"evaluate_text", "evaluate_file"}

\* A request that has gone through evaluate_case_from_text and has ended.
Evaluated(t) ==
    /\ tasks[t].kind \in EvalKinds
    /\ tasks[t].pc = "done"
    /\ tasks[t].input # NoInput

\* C1: a request whose digest is in the cache gets the stored record and no
\* provider call is made; a request whose digest is not there makes exactly
\* one evaluate_case call, and the record it gets is the one now stored under
\* its digest.
C1_HitOrSingleCall ==
    \A t \in Slots :
       LET tk == tasks[t]
       IN  /\ Evaluated(t) /\ tk.hit =>
                 /\ tk.provCalls = 0 /\ tk.llmCalls = 0
                 /\ tk.outcome = "record"
                 /\ Digest(tk.input) \in DOMAIN cache
                 /\ tk.result = cache[Digest(tk.input)]
           /\ Evaluated(t) /\ ~tk.hit =>
                 /\ tk.provCalls = 1
                 /\ tk.outcome = "record" =>
                       /\ Digest(tk.input) \in DOMAIN cache
                       /\ tk.result = cache[Digest(tk.input)]
           /\ tk.pc \in {"eval_wait1", "eval_wait2"} => ~tk.hit /\ tk.provCalls = 1

\* A miss has built its record and stored it.
C1_Witness ==
    \E t \in Slots :
       /\ Evaluated(t) /\ ~tasks[t].hit /\ tasks[t].outcome = "record"
       /\ tasks[t].provCalls = 1
       /\ cache[Digest(tasks[t].input)] = tasks[t].result

\* The fields two evaluations of one input agree on.
Scores(rec) ==
    <<rec.case_id, rec.legal_merit.score, rec.damages_potential.score,
      rec.case_complexity.score, rec.priority_score>>

\* C2: any two records evaluate_case_from_text has returned for one input
\* have the same id, the same three scores and the same priority score; a hit
\* returns the whole record that was returned before, created_at included.
C2_Idempotent ==
    /\ \A a, b \in returned : a.input = b.input => Scores(a.rec) = Scores(b.rec)
    /\ \A t \in Slots :
          Evaluated(t) /\ tasks[t].hit =>
             \A a \in returned : a.input = tasks[t].input => a.rec = tasks[t].result

\* An input evaluated by the backend in this run is asked for again, and hit.
C2_Witness ==
    \E t \in Slots :
       /\ Evaluated(t) /\ tasks[t].hit
       /\ tasks[t].input \in everStored
       /\ [input |-> tasks[t].input, rec |-> tasks[t].result] \in returned

\* C3: a record stored in the cache is in the cache of the process in every
\* later state, restarts of the process included (the store reaches the cache
\* file, and the next process loads it).
C3_SurvivesRestart ==
    \A i \in everStored : CacheHit(cache, Digest(i))

\* What the load of a file should give: its entries that validate.
ValidEntriesOf(file) ==
    IF file.kind # "dict" THEN EmptyMap
    ELSE [k \in {file.entries[i].k :
                   i \in {j \in DOMAIN file.entries : file.entries[j].valid}} |->
             file.entries[CHOOSE i \in DOMAIN file.entries :
                              file.entries[i].k = k].rec]

\* C4: the construction of the evaluator leaves in the cache exactly the
\* entries of the file that validate, whatever the file holds; an entry that
\* does not validate takes no other entry with it.
C4_LoadKeepsValidEntries ==
    evaluator = "CaseEvaluator" => cache = ValidEntriesOf(cacheFile)

\* A file with an invalid entry before and after a valid one was loaded.
C4_Witness ==
    /\ evaluator = "CaseEvaluator"
    /\ cacheFile.kind = "dict"
    /\ Len(cacheFile.entries) = 3
    /\ ~cacheFile.entries[1].valid
    /\ cacheFile.entries[2].valid
    /\ ~cacheFile.entries[3].valid
    /\ DOMAIN cache = {cacheFile.entries[2].k}

\* C5: an entry of the cache stays what it is in every step of evaluate,
\* evaluate-batch, delete_case and clear_all_cases.
C5_EntriesStable ==
    [][\A d \in DOMAIN cache : d \in DOMAIN cache' /\ cache'[d] = cache[d]]_vars

\* A record of this run is still cached after its case was deleted or cleared.
C5_Witness ==
    \E i \in everStored :
       /\ CaseId(Digest(i)) \in DOMAIN evaluated_case_texts
       /\ CaseId(Digest(i)) \notin DOMAIN evaluated_cases
       /\ Digest(i) \in DOMAIN cache
       /\ Cardinality(DOMAIN cache) = 2

\* C6: while an evaluation waits for its backend call, its coroutine is
\* suspended and the event loop is free, so that another request for the same
\* digest can run its cache check before the store.
C6_BackendCallYields ==
    \A t \in Slots :
       tasks[t].kind \in EvalKinds \cup {"batch"}
       /\ tasks[t].pc \in {"eval_wait1", "eval_wait2"} => loop # t

\* C7: one evaluation makes at most three backend calls, one and at most two
\* continuations, and it ends with a record or with an error.
C7_AtMostThreeCalls ==
    \A t \in Slots :
       LET tk == tasks[t]
       IN  tk.kind \in EvalKinds \cup {"batch"} =>
              /\ tk.llmCalls <= 3
              /\ tk.conts <= 2
              /\ tk.llmCalls = (IF tk.provCalls > 0 /\ tk.error # "AttributeError"
                                THEN 1 + tk.conts ELSE 0)
              /\ Evaluated(t) =>
                    \/ tk.outcome = "record" /\ tk.result # NoRecord
                    \/ tk.outcome = "error" /\ tk.error # ""

\* An evaluation that asked for a continuation has ended with a record.
C7_Witness ==
    \E t \in Slots :
       Evaluated(t) /\ tasks[t].conts = 1 /\ tasks[t].llmCalls = 2
       /\ tasks[t].outcome = "record"

\* C8: one chat request makes at most three generate_text calls, the first
\* one and at most two continuations.
C8_AtMostTwoContinuations ==
    \A t \in Slots : tasks[t].kind = "chat" => tasks[t].llmCalls <= 3

\* C9: a first reply that ends in . ! ? or " is returned as it was received,
\* and no continuation is asked for.
C9_SentenceEndIsComplete ==
    \A t \in Slots :
       LET tk == tasks[t]
       IN  tk.kind = "chat" /\ ~tk.seeded /\ tk.llmCalls >= 1
           /\ tk.pc \in {"chat_waitA", "chat_waitB", "done"} /\ tk.outcome # "error"
           /\ EndsSentence(tk.first) =>
              tk.llmCalls = 1 /\ tk.reply = tk.first

\* C10: once a continuation call has raised, the request has ended with the
\* text it had, as an answer, and has made no further call.
C10_ContinuationBestEffort ==
    \A t \in Slots :
       LET tk == tasks[t]
       IN  tk.kind = "chat" /\ tk.raised =>
              /\ tk.pc = "done"
              /\ tk.outcome = "answer"
              /\ tk.reply = tk.raisedReply
              /\ tk.llmCalls = tk.raisedCalls

\* A second continuation raised after the first had added to the reply.
C10_Witness ==
    \E t \in Slots :
       /\ tasks[t].kind = "chat" /\ tasks[t].raised
       /\ tasks[t].llmCalls = 3
       /\ tasks[t].reply # tasks[t].first
       /\ tasks[t].outcome = "answer"

\* C15: an evaluation whose first backend call has failed has ended with that
\* failure after exactly one backend call and no continuation, and the step
\* in which it failed has left the cache as it was.
C15_FirstCallFailureEnds ==
    /\ [](\A t \in Slots :
             tasks[t].error = "UpstreamError" =>
                /\ tasks[t].pc = "done" /\ tasks[t].outcome = "error"
                /\ tasks[t].provCalls = 1
                /\ tasks[t].llmCalls = 1 /\ tasks[t].conts = 0
                /\ ~CacheHit(cache, Digest(tasks[t].input)))
    /\ [][(\E t \in Slots : tasks[t].pc = "eval_wait1"
                             /\ tasks'[t].error = "UpstreamError")
            => cache' = cache]_vars

\* The first call of a request has failed while the cache held a record.
C15_Witness ==
    \E t \in Slots :
       /\ Evaluated(t) /\ tasks[t].error = "UpstreamError"
       /\ tasks[t].llmCalls = 1
       /\ cache # EmptyMap

----------------------------------------------------------------------------
(* evaluate_case on texts: C11 to C14 and C16.                             *)

\* evaluator.py:107-113: a request that did not find its digest in the cache
\* and has ended.
Missed(t) == Evaluated(t) /\ ~tasks[t].hit

\* evaluate_case returned a value (llm_adapter.py:820, 830, 840, 849, 876, 880).
Returned(t) == Missed(t) /\ tasks[t].exchange.answer.parse \in {"direct", "repaired"}

\* C11: with either adapter, a request that misses the cache asks the
\* backend, and when the answer is a well-formed JSON object, bare or in code
\* fences, evaluate_case returns the parsed object after that one call:
\* json.loads of the stripped text gave it, no repair ran and no continuation
\* was asked for.
C11_WellFormedReturnedAsIs ==
    \A t \in Slots :
       Missed(t) =>
          /\ tasks[t].llmCalls >= 1
          /\ \A v \in ResponseObjects :
                tasks[t].exchange.raw \in {TextOf(v), Fenced(TextOf(v))} =>
                   /\ tasks[t].exchange.answer.parse = "direct"
                   /\ tasks[t].exchange.answer.strategy = "json.loads"
                   /\ tasks[t].exchange.answer.value = v
                   /\ tasks[t].llmCalls = 1
                   /\ tasks[t].conts = 0

\* C12: a response that looks truncated gets its continuation before any
\* repair: no request whose first response looked truncated ends without a
\* continuation call.
C12_TruncationBeforeRepair ==
    \A t \in Slots :
       Missed(t) /\ tasks[t].exchange.first.trunc => tasks[t].conts >= 1

\* A record whose three dimensions are all the defaults of evaluator.py:165-166.
AllDefaults(evaluation) ==
    \A dim \in {evaluation.legal_merit, evaluation.damages_potential,
                evaluation.case_complexity} :
       dim.score = 50 /\ dim.reasoning = UnableToDetermine

\* C13: no record is made up from a response that did not parse: a request
\* whose value came out of a repair never returns, nor caches, a record that is
\* the defaults in all three dimensions.
C13_NoRecordOfDefaults ==
    \A t \in Slots :
       Missed(t) /\ tasks[t].exchange.answer.parse = "repaired"
                 /\ tasks[t].outcome = "record"
          => ~AllDefaults(tasks[t].result)

\* C14: evaluate_case returns a mapping or fails with the parse error
\* (ValueError); it never returns a list, a number, a string or null.
C14_MappingOrParseError ==
    \A t \in Slots :
       /\ Returned(t) => tasks[t].exchange.answer.value.t = "obj"
       /\ Missed(t) /\ tasks[t].exchange.answer.parse = "fail"
                     /\ ~tasks[t].exchange.answer.raises
             => tasks[t].outcome = "error" /\ tasks[t].error = "ValueError"

\* case.py:52, 67: Field(ge=0, le=10); scores in tenths, priority in hundredths.
InRange(evaluation) ==
    /\ \A dim \in {evaluation.legal_merit, evaluation.damages_potential,
                   evaluation.case_complexity} :
          dim.score >= 0 /\ dim.score <= 100
    /\ evaluation.priority_score.h >= 0
    /\ evaluation.priority_score.h <= 1000

\* A decoded response with a dimension whose score is a number outside 0..10.
ScoreOutside(payload) ==
    /\ payload.t = "obj"
    /\ \E key \in DimKeys :
          /\ Get(payload, key, EmptyObj).t = "obj"
          /\ Get(Get(payload, key, EmptyObj), Key("score"), JNum(50)).t = "num"
          /\ \/ Get(Get(payload, key, EmptyObj), Key("score"), JNum(50)).n < 0
             \/ Get(Get(payload, key, EmptyObj), Key("score"), JNum(50)).n > 100

\* C16: every record returned or cached has its three scores and its
\* priority score in [0, 10]; a response with a score outside [0, 10] makes
\* the request fail, and the step that ends it leaves the cache as it was.
C16_ScoresInRange ==
    /\ [](/\ \A k \in DOMAIN cache : InRange(cache[k])
          /\ \A k \in DOMAIN evaluated_cases : InRange(evaluated_cases[k])
          /\ \A t \in Slots :
                /\ Evaluated(t) /\ tasks[t].outcome = "record" => InRange(tasks[t].result)
                /\ Returned(t) /\ ScoreOutside(tasks[t].exchange.answer.value)
                      => tasks[t].outcome = "error")
    /\ [][\A t \in Slots :
             tasks[t].pc \in {"eval_wait1", "eval_wait2"}
             /\ tasks'[t].pc = "done"
             /\ ScoreOutside(tasks'[t].exchange.answer.value)
                => cache' = cache]_vars

\* A response with a score of 11 or of -1 has ended a request in an error
\* while the cache holds a record.
C16_Witness ==
    \E t \in Slots :
       /\ Returned(t)
       /\ ScoreOutside(tasks[t].exchange.answer.value)
       /\ tasks[t].outcome = "error"
       /\ cache # EmptyMap

----------------------------------------------------------------------------
(* The record of a response: C17 to C20.                                   *)

\* The dimension of a record that a key of the response fills.
DimOf(evaluation, key) ==
    IF key = Key("legal_merit") THEN evaluation.legal_merit
    ELSE IF key = Key("damages_potential") THEN evaluation.damages_potential
    ELSE evaluation.case_complexity

\* C17: for scores m, d, c on the grid of tenths, the record has
\* priority_score = clamp(0, 10, 0.4 m + 0.4 d - 0.2 c) and the rank High
\* from 7 on, Medium from 4 on, Low below; (9, 9, 2) gives 6.8, (3, 4, 8) gives
\* 1.2 and (10, 10, 0) gives 8.0.  Scores are in tenths, so the sum is
\* 4 m + 4 d - 2 c hundredths.
C17_PriorityFormula ==
    probe.fn = "evaluation" /\ ~probe.raises =>
       LET m == probe.record.legal_merit.score
           d == probe.record.damages_potential.score
           c == probe.record.case_complexity.score
           sum == 4 * m + 4 * d - 2 * c
           clamped == IF sum < 0 THEN 0 ELSE IF sum > 1000 THEN 1000 ELSE sum
       IN  /\ probe.record.priority_score.h = clamped
           /\ probe.record.priority_rank =
                 (IF clamped >= 700 THEN "High"
                  ELSE IF clamped >= 400 THEN "Medium" ELSE "Low")
           /\ <<m, d, c>> = <<90, 90, 20>> => probe.record.priority_score.h = 680
           /\ <<m, d, c>> = <<30, 40, 80>> => probe.record.priority_score.h = 120
           /\ <<m, d, c>> = <<100, 100, 0>> => probe.record.priority_score.h = 800

\* C18: in each dimension, a score that is absent or is no number (a string
\* that is no numeral, null, a list) gives the score 5.0 and the request still
\* succeeds.
C18_ScoreDefault ==
    \A t \in Slots :
       Returned(t) /\ tasks[t].exchange.answer.value.t = "obj" =>
          \A key \in DimKeys :
             LET data == Get(tasks[t].exchange.answer.value, key, EmptyObj)
             IN  /\ data.t = "obj"
                 /\ ReasoningOf(data).t = "str"
                 /\ \/ ~HasKey(data, Key("score"))
                    \/ Get(data, Key("score"), JNull).t \in {"null", "arr"}
                    \/ /\ Get(data, Key("score"), JNull).t = "str"
                       /\ ~IsNumeral(Strip(Get(data, Key("score"), JNull).s))
                 => /\ tasks[t].outcome = "record"
                    /\ DimOf(tasks[t].result, key).score = 50

\* C19: in each dimension, a reasoning that is absent or empty gives the
\* reasoning 'Unable to determine', and no dimension of a record has an empty
\* reasoning.
C19_ReasoningDefault ==
    \A t \in Slots :
       /\ Returned(t) /\ tasks[t].exchange.answer.value.t = "obj" =>
             \A key \in DimKeys :
                LET data == Get(tasks[t].exchange.answer.value, key, EmptyObj)
                IN  /\ data.t = "obj"
                    /\ ~DimRaises(data)
                    /\ \/ ~HasKey(data, Key("reasoning"))
                       \/ Get(data, Key("reasoning"), JNull) = JStr(<<>>)
                    => /\ tasks[t].outcome = "record"
                       /\ DimOf(tasks[t].result, key).reasoning = UnableToDetermine
       /\ Evaluated(t) /\ tasks[t].outcome = "record" =>
             \A key \in DimKeys : DimOf(tasks[t].result, key).reasoning # <<>>

----------------------------------------------------------------------------
(* The length of key factors: C21.                                         *)

\* C21: every key factor of every dimension of a record is at most 200
\* characters long, whether it was a list element, a fragment of a split
\* string or a sentence of the reasoning; and a string with no fragment of
\* 200 characters or fewer gives no factor of its own: the factors are then
\* the first sentences of the reasoning.
C21_FactorsShort ==
    probe.fn = "evaluation" /\ ~probe.raises =>
       LET Length(p) ==
               Len(p) + MaxFactorLen * Cardinality({k \in DOMAIN p : p[k] = LongWord})
           data == Get(probe.payload, Key("legal_merit"), EmptyObj)
           value == Get(data, Key("key_factors"), JNull)
           reasoning == Get(data, Key("reasoning"), JStr(<<>>))
       IN  /\ \A key \in DimKeys :
                \A i \in DOMAIN DimOf(probe.record, key).key_factors :
                   Length(DimOf(probe.record, key).key_factors[i]) <= MaxFactorLen
           /\ (/\ HasKey(probe.payload, Key("legal_merit"))
               /\ value.t = "str"
               /\ \E j \in DOMAIN value.s : value.s[j] = LongWord
               /\ \A j \in DOMAIN value.s :
                     value.s[j] \in {LongWord, ";", "."} \cup Whitespace)
              => LET sents == SplitSentences(reasoning.s, <<>>)
                 IN  probe.record.legal_merit.key_factors
                        = SubSeq(sents, 1, IF Len(sents) < 3 THEN Len(sents) ELSE 3)

----------------------------------------------------------------------------
(* The repairs on their own: C22 to C26, C29, C30.                         *)

\* C22: _looks_truncated(text) is true exactly when the text has a last
\* character that is no white space and that character is neither '}' nor
\* ']'; it is false for the empty string, for a text of white space only and
\* for None.
C22_LooksTruncated ==
    probe.fn = "_looks_truncated" =>
       /\ probe.text.t = "null" => probe.result = FALSE
       /\ probe.text.t = "str" =>
             /\ probe.result =
                   \E i \in DOMAIN probe.text.s :
                      /\ probe.text.s[i] \notin Whitespace
                      /\ \A j \in (i + 1)..Len(probe.text.s) :
                            probe.text.s[j] \in Whitespace
                      /\ probe.text.s[i] \notin {"}", "]"}
             /\ (\A i \in DOMAIN probe.text.s : probe.text.s[i] \in Whitespace)
                   => probe.result = FALSE

\* A text that ends with a brace and white space was tested and does not look
\* truncated.
C22_Witness ==
    /\ probe.fn = "_looks_truncated"
    /\ probe.text = JStr(<<"{", "}", " ", "\n">>)
    /\ probe.result = FALSE

\* C23: the cascade tries direct parse, truncation completion, trailing-comma
\* removal, control-character escaping, aggressive structural close,
\* invalid-escape stripping and brace-scan extraction in this order, each on
\* the response text itself, and returns the value of the first that parses;
\* it fails only when none parses.
C23_CascadeOrder ==
    probe.fn = "cascade" =>
       LET text == StripMarkdownJson(probe.text)
           tried == <<text, CompleteTruncatedJson(text), RemoveTrailingCommas(text),
                      EscapeControlChars(text), CloseUnterminatedStructures(text),
                      FixInvalidEscapes(text)>>
           parses == {i \in DOMAIN tried : JsonLoads(tried[i]).ok}
           first == CHOOSE i \in parses : \A j \in parses : i <= j
       IN  IF parses # {}
           THEN /\ probe.answer.parse # "fail"
                /\ probe.answer.value = JsonLoads(tried[first]).v
           ELSE IF ExtractAndRepairJson(text).ok
           THEN /\ probe.answer.parse # "fail"
                /\ probe.answer.value = ExtractAndRepairJson(text).v
           ELSE probe.answer.parse = "fail"

\* C24, as the code has it: the output of _complete_truncated_json is the
\* trimmed input, then a quote when the scan ends inside a string, then one
\* ']' per '[' left open and one '}' per '{' left open.  The scan skips the
\* character after a backslash that is not itself skipped, inside and outside
\* strings: such a quote does not toggle the string and such a brace or
\* bracket is not counted.  The truncated example gets "}} appended.
C24_Completion ==
    probe.fn = "repairs" =>
       LET kept == {i \in DOMAIN probe.text : probe.text[i] \notin Whitespace}
           s == IF kept = {} THEN <<>>
                ELSE SubSeq(probe.text, CHOOSE i \in kept : \A j \in kept : i <= j,
                                        CHOOSE i \in kept : \A j \in kept : j <= i)
           Run(i) == Cardinality({k \in 1..(i - 1) : \A m \in k..(i - 1) : s[m] = "\\"})
           Escaped(i) == Run(i) % 2 = 1
           Quote(i) == s[i] = "\"" /\ ~Escaped(i)
           Inside(i) == Cardinality({k \in 1..i : Quote(k)}) % 2 = 1
           Count(c) == Cardinality({i \in DOMAIN s : s[i] = c /\ ~Inside(i) /\ ~Escaped(i)})
           Open(a, b) == IF Count(a) > Count(b) THEN Count(a) - Count(b) ELSE 0
       IN  /\ probe.completed =
                 s \o (IF Inside(Len(s)) THEN <<"\"">> ELSE <<>>)
                   \o [k \in 1..Open("[", "]") |-> "]"]
                   \o [k \in 1..Open("{", "}") |-> "}"]
           /\ probe.text = TruncatedExample
                 => probe.completed = TruncatedExample \o <<"\"", "}", "}">>

\* C24, as stated: the same with every brace and bracket outside strings
\* counted, whatever stands before it.
C24_CompletionAsStated ==
    probe.fn = "repairs" =>
       LET kept == {i \in DOMAIN probe.text : probe.text[i] \notin Whitespace}
           s == IF kept = {} THEN <<>>
                ELSE SubSeq(probe.text, CHOOSE i \in kept : \A j \in kept : i <= j,
                                        CHOOSE i \in kept : \A j \in kept : j <= i)
           Run(i) == Cardinality({k \in 1..(i - 1) : \A m \in k..(i - 1) : s[m] = "\\"})
           Escaped(i) == Run(i) % 2 = 1
           Quote(i) == s[i] = "\"" /\ ~Escaped(i)
           Inside(i) == Cardinality({k \in 1..i : Quote(k)}) % 2 = 1
           Count(c) == Cardinality({i \in DOMAIN s : s[i] = c /\ ~Inside(i)})
           Open(a, b) == IF Count(a) > Count(b) THEN Count(a) - Count(b) ELSE 0
       IN  /\ probe.completed =
                 s \o (IF Inside(Len(s)) THEN <<"\"">> ELSE <<>>)
                   \o [k \in 1..Open("[", "]") |-> "]"]
                   \o [k \in 1..Open("{", "}") |-> "}"]
           /\ probe.text = TruncatedExample
                 => probe.completed = TruncatedExample \o <<"\"", "}", "}">>

\* The truncated example was completed.
C24_Witness ==
    /\ probe.fn = "repairs"
    /\ probe.text = TruncatedExample
    /\ probe.completed = TruncatedExample \o <<"\"", "}", "}">>

\* C25: _remove_trailing_commas takes away exactly the commas that are
\* outside strings and have ']' or '}' as the next character that is no white
\* space (the comma is dropped, or blanked as the code does it); every other
\* character, every comma inside a string among them, stays as it is.
C25_TrailingCommas ==
    probe.fn = "repairs" =>
       LET s == probe.text
           Run(i) == Cardinality({k \in 1..(i - 1) : \A m \in k..(i - 1) : s[m] = "\\"})
           Quote(i) == s[i] = "\"" /\ Run(i) % 2 = 0
           Inside(i) == Cardinality({k \in 1..i : Quote(k)}) % 2 = 1
           Trailing(i) ==
               /\ s[i] = ","
               /\ ~Inside(i)
               /\ \E j \in (i + 1)..Len(s) :
                     /\ s[j] \in {"]", "}"}
                     /\ \A k \in (i + 1)..(j - 1) : s[k] \in {" ", "\n", "\r", "\t"}
           keep == {i \in DOMAIN s : ~Trailing(i)}
           Nth(k) == CHOOSE a \in keep : Cardinality({b \in keep : b < a}) = k - 1
           dropped == [k \in 1..Cardinality(keep) |-> s[Nth(k)]]
           blanked == [i \in DOMAIN s |-> IF Trailing(i) THEN " " ELSE s[i]]
       IN  probe.commas = dropped \/ probe.commas = blanked

\* C26: when the brace scan of _extract_and_repair_json finds no brace that
\* closes the first '{', the candidate is the text from that brace to the end,
\* then a quote when the text ends inside a string, then one ']' for every
\* bracket and one '}' for every brace still open outside strings.
C26_Candidate ==
    (probe.fn = "repairs" /\ probe.candidate.found) =>
       LET from == CHOOSE i \in DOMAIN probe.text :
                       probe.text[i] = "{" /\ \A k \in 1..(i - 1) : probe.text[k] # "{"
           s == SubSeq(probe.text, from, Len(probe.text))
           c == probe.candidate.text
           Run(i) == Cardinality({k \in 1..(i - 1) : \A m \in k..(i - 1) : s[m] = "\\"})
           Plain(i) == Run(i) % 2 = 0
           Quote(i) == s[i] = "\"" /\ Plain(i)
           Inside(i) == Cardinality({k \in 1..i : Quote(k)}) % 2 = 1
           Count(ch, i) == Cardinality({k \in 1..i : s[k] = ch /\ Plain(k) /\ ~Inside(k)})
           Matched == \E i \in DOMAIN s :
                         s[i] = "}" /\ Plain(i) /\ ~Inside(i)
                                    /\ Count("{", i) = Count("}", i)
           quote == IF Inside(Len(s)) THEN 1 ELSE 0
           braces == Count("{", Len(s)) - Count("}", Len(s))
           brackets == IF Count("[", Len(s)) > Count("]", Len(s))
                       THEN Count("[", Len(s)) - Count("]", Len(s)) ELSE 0
           tail == (Len(s) + quote + 1)..Len(c)
       IN  ~Matched =>
              /\ Len(c) = Len(s) + quote + brackets + braces
              /\ \A i \in DOMAIN s : c[i] = s[i]
              /\ quote = 1 => c[Len(s) + 1] = "\""
              /\ Cardinality({i \in tail : c[i] = "]"}) = brackets
              /\ Cardinality({i \in tail : c[i] = "}"}) = braces

\* C29: the repair scanners agree on the string state: two scanners that start
\* at the same character, one testing the previous character and one keeping
\* an escape state, have the same in-string flag after every character both
\* of them scan.
C29_ScannersAgree ==
    probe.fn = "repairs" =>
       \A p \in PrevCharScanners, e \in EscapeStateScanners :
          LET fp == probe.flags[p]
              fe == probe.flags[e]
              both == DOMAIN fp \cap DOMAIN fe
          IN  (\E a \in both : \A b \in DOMAIN fp \cup DOMAIN fe : a <= b)
                 => \A k \in both : fp[k] = fe[k]

\* C30: for a prefix of a well-formed JSON text, the text completed by
\* _complete_truncated_json and the text closed by
\* _close_unterminated_structures are properly nested: outside strings every
\* ']' closes the nearest '[' still open, every '}' the nearest '{' still
\* open, and nothing stays open.
C30_ClosersNested ==
    (probe.fn = "repairs" /\ probe.text \in NestedPrefixes) =>
       \A c \in {probe.completed, probe.closed} :
          LET Quote(i) == c[i] = "\"" /\ (i = 1 \/ c[i - 1] # "\\")
              Inside(i) == Cardinality({k \in 1..i : Quote(k)}) % 2 = 1
              marks == {i \in DOMAIN c : c[i] \in {"{", "}", "[", "]"} /\ ~Inside(i)}
              Depth(i) == Cardinality({k \in marks : k <= i /\ c[k] \in {"{", "["}})
                          - Cardinality({k \in marks : k <= i /\ c[k] \in {"}", "]"}})
              Opener(i) == CHOOSE j \in marks :
                              /\ j < i /\ c[j] \in {"{", "["} /\ Depth(j) = Depth(i) + 1
                              /\ \A k \in marks :
                                    (k < i /\ c[k] \in {"{", "["} /\ Depth(k) = Depth(i) + 1)
                                       => k <= j
          IN  /\ \A i \in marks : Depth(i) >= 0
              /\ Depth(Len(c)) = 0
              /\ \A i \in marks : c[i] = "]" => c[Opener(i)] = "["
              /\ \A i \in marks : c[i] = "}" => c[Opener(i)] = "{"

----------------------------------------------------------------------------
(* The routes: C27, C28.                                                   *)

\* C27: a chat request about a seeded case (its title contains 'seed') makes
\* no call to the generative backend at any point.
C27_SeededChatLocal ==
    \A t \in Slots :
       (tasks[t].kind = "chat" /\ tasks[t].seeded) => tasks[t].llmCalls = 0

\* C28: evaluated_cases and evaluated_case_texts hold the same case ids.
C28_StoresAgree == DOMAIN evaluated_cases = DOMAIN evaluated_case_texts

====
